---------------------------- MODULE Spec2Model ----------------------------
(***************************************************************************)
(* ZeroID server: the two-layer verification cache, the proof verification *)
(* route, and the credential issuance route, as state machines.            *)
(*                                                                         *)
(* Every await of a handler is one interleaving point: an action performs  *)
(* the awaited I/O and then runs the handler's continuation up to its next *)
(* await.  A store operation either takes effect or throws.                *)
(***************************************************************************)
EXTENDS Integers, Sequences, FiniteSets, TLC

(***************************************************************************)
(* Bounds of the model.                                                    *)
(***************************************************************************)
\* capacity of the in-memory LRU (10 000 in the source, scaled down)
MaxSize == 3
\* per-entry TTL in clock ticks (3 600 000 ms in the source, scaled down)
TtlMs == 1
\* the clock runs from 0 to MaxTime
MaxTime == 2
\* requests to POST /proof/verify, all of which may be in flight together
MaxVerify == 3
\* requests to POST /credential, all of which may be in flight together
MaxIssue == 2
\* calls of the escrow operations
MaxEscrowOps == 3
\* retention of an escrow entry in clock ticks (5 years in the source, scaled
\* down)
RetentionMs == 1
\* entries of one aggregateProofs call
MaxProofs == 3
\* order of the toy signature group that stands for the BabyJubJub subgroup
SubOrder == 3

\* Request bodies {proof, publicSignals} of POST /proof/verify, each named by
\* its fingerprint: hashProof is SHA-256 over the JSON of the body, taken to
\* be collision free, so distinct bodies have distinct fingerprints.
Keys == {"f1", "f2", "f3", "f4"}
\* nullifier strings
Nullifiers == {"n1", "n2"}
\* publicSignals[5] of each body: f1 and f2 are two proofs with one nullifier
SignalNullifier(k) == IF k \in {"f1", "f2"} THEN "n1" ELSE "n2"
\* publicSignals[4] of each body
SignalAppId(k) == "app"
\* what snarkjs.groth16.verify answers for each body under the loaded key
Groth16Valid(k) == k \in {"f1", "f2", "f4"}

NoEntry == [none |-> TRUE]
NoKey == "-"

VARIABLES
  \* ---- verification cache (cache.ts) ----
  memoryCache,      \* LRUMemoryCache.cache: a JS Map, as the sequence of its entries in insertion order
  proofCacheStore,  \* stores.proofCache: fingerprint -> ProofCacheEntry, or NoEntry
  now,              \* Date.now()
  useOrder,         \* history: the keys held by memoryCache, least recently used (set or get hit) first
  lastOp,           \* history: the last cache call and what it returned
  tracked           \* history: one setCached call followed until the next getCached of its key

VARIABLES
  \* ---- stores (stores.ts) ----
  nullifierStore,   \* stores.nullifiers: nullifier -> NullifierEntry, or NoEntry
  auditLog,         \* stores.auditLog: the appended entries, in order
  nullifierPuts,    \* history: per nullifier, the number of writes of its key
  \* ---- POST /api/v1/proof/verify (routes/proof.ts), one handler per request ----
  vkeyExists,       \* fs.existsSync(VKEY_PATH)
  vpc,              \* where each handler stands: the await it is suspended at
  vbody,            \* each request's body, named by its fingerprint
  vresp,            \* the response sent, or NoResp
  vput              \* history: the handler's registerNullifier wrote the nullifier key

VARIABLES
  \* ---- issuer keys (crypto/keys.ts) ----
  issuerKeyPair,    \* the module's cached key pair, or NoPair
  keyFile,          \* contents of .keys/issuer.json, or NoPair when the file is absent
  envPrivateKey,    \* process.env.ZEROID_ISSUER_PRIVATE_KEY, or NoPrivateKey when unset
  \* ---- stores written by issuance (stores.ts) ----
  escrowStore,      \* stores.escrow: escrowId -> EscrowEntry, or NoEntry
  credentialStore,  \* stores.credentials: credential _id -> document, or NoEntry
  \* ---- POST /api/v1/credential (routes/credential.ts), one handler per request ----
  ipc,              \* where each handler stands: the await it is suspended at
  isub,             \* each request's validated submission
  ikey,             \* the handler's local keyPair inside issueCredential
  icred,            \* the handler's local credential
  iresp,            \* the response sent, or NoResp
  icalls            \* history: the provider and store calls the handler has made, in order

VARIABLES
  \* ---- escrow operations (stores.ts), one task per call ----
  etask,            \* each call in flight: its operation, arguments, locals and await position
  elast,            \* the call that finished last, with what it returned or threw
  ulids,            \* the number of escrow ids generateULID has handed out
  allIterable,      \* whether stores.escrow.all is an async iterable in the OrbitDB build
  ehist             \* history, per escrow id: what rotations have returned

cacheVars == <<memoryCache, proofCacheStore, now, useOrder, lastOp, tracked>>
cacheHistory == <<useOrder, lastOp, tracked>>
storeVars == <<nullifierStore, auditLog, nullifierPuts>>
verifyVars == <<vkeyExists, vpc, vbody, vresp, vput>>

keyVars == <<issuerKeyPair, keyFile, envPrivateKey>>
issueVars == <<keyVars, escrowStore, credentialStore, ipc, isub, ikey, icred, iresp, icalls>>

escrowVars == <<etask, elast, ulids, allIterable, ehist>>

VARIABLES
  \* ---- aggregateProofs (verifier/aggregate.ts) ----
  acall             \* the call: its arguments, the verifications settled so far, its result

VARIABLES
  \* ---- verification records (POST and GET /api/v1/verify) ----
  verifications,    \* the in-memory Map of verification records, by id
  vget              \* the last GET /api/v1/verify/:id response, with its history

recordVars == <<verifications, vget>>

VARIABLES
  \* ---- sanctions Merkle tree (kyc/types.ts, kyc/merkle.ts) ----
  sanctionsTree,    \* the module's singleton: 0 (null) or the tree object it points to
  stask             \* per caller: its call, its position, the tree it built, what it saw

treeVars == <<sanctionsTree, stask>>

VARIABLES
  \* ---- process shutdown (index.ts, db/stores.ts) ----
  storesInstance,   \* TRUE while the module's storesInstance is set, FALSE once null
  closeCalls,       \* how often close() was called on the stores
  exited,           \* process.exit(0) was called
  sigpc,            \* per signal delivered: where its shutdown() stands
  hreq              \* per writing handler: its position and what it observed

shutVars == <<storesInstance, closeCalls, exited, sigpc, hreq>>

VARIABLES
  \* ---- expiry dates of one issuance (issuer/credential.ts, db/stores.ts) ----
  expiry            \* the clock in hours, the credential's and the escrow entry's dates

VARIABLES
  \* ---- the middleware chain of the /api/v1 routes (api/middleware.ts, api/server.ts) ----
  areq,             \* per request: its headers and body, the middleware that ran, its response
  ratePoints        \* points consumed in the rate limiter's window, per key

apiVars == <<areq, ratePoints>>

VARIABLES
  \* ---- the age computed by issueCredential (issuer/credential.ts 82-92) ----
  ageCase           \* one call: the date of birth, today's date, the age, the outcome

VARIABLES
  \* ---- one escrow entry written and read back (db/stores.ts 279-359) ----
  rt                \* the record and key given to putEscrowEntry, the entry, the last read

VARIABLES
  \* ---- the audit trail with its metadata (db/stores.ts) ----
  trail,            \* the audit log entries in full: action, resourceId, actor, metadata
  aflow             \* the issuance under way: its submission and its credential

trailVars == <<trail, aflow>>

VARIABLES
  \* ---- when the cached results were verified (cache.ts, db/stores.ts 568-591) ----
  verifiedAt        \* l2: the verifiedAt field of each persistent cache entry;
                    \* l1 (history): when the result each memory entry holds was verified

VARIABLES
  \* ---- replication peers (db/orbit.ts 33-77) ----
  authorizedPeers,  \* the Set of authorized peer ids
  connections,      \* the peers with an open libp2p connection
  everAuthorized    \* history: the peer ids authorizePeer was ever called with

gateVars == <<authorizedPeers, connections, everAuthorized>>

lateVars == <<recordVars, treeVars, shutVars, expiry, apiVars, ageCase, rt, trailVars, verifiedAt, gateVars>>

vars == <<cacheVars, storeVars, verifyVars, issueVars, escrowVars, acall, lateVars>>

(***************************************************************************)
(* JS Map, as a sequence of [key, valid, nullifier, timestamp] records     *)
(* with distinct keys, in insertion order.                                 *)
(***************************************************************************)
MapKeys(m) == {m[i].key : i \in 1..Len(m)}

MapHas(m, k) == k \in MapKeys(m)

MapGet(m, k) ==
  IF MapHas(m, k) THEN m[CHOOSE i \in 1..Len(m) : m[i].key = k] ELSE NoEntry

MapDelete(m, k) == SelectSeq(m, LAMBDA e : e.key # k)

\* Map.prototype.set: an existing key keeps its position, a new key goes last
MapSet(m, k, e) ==
  IF MapHas(m, k)
  THEN [i \in 1..Len(m) |-> IF m[i].key = k THEN e ELSE m[i]]
  ELSE Append(m, e)

\* cache.keys().next().value
MapOldest(m) == IF Len(m) = 0 THEN NoKey ELSE m[1].key

Entry(k, v, n, t) == [key |-> k, valid |-> v, nullifier |-> n, timestamp |-> t]

(***************************************************************************)
(* LRUMemoryCache                                                          *)
(***************************************************************************)
\* a TTL test with the subtraction turned round
ExpiredReversed(e, t) == e.timestamp - t > TtlMs

\* the TTL test of get: Date.now() - entry.timestamp > this.ttlMs
Expired(e, t) == t - e.timestamp > TtlMs

\* history: the keys whose entries are older than the TTL at time t
StaleKeys(m, t) == {m[i].key : i \in {j \in 1..Len(m) : Expired(m[j], t)}}

\* get(key): [cache |-> the map afterwards, result |-> the entry or NoEntry]
LRUget(m, k, t) ==
  LET entry == MapGet(m, k) IN
  IF entry = NoEntry THEN [cache |-> m, result |-> NoEntry]
  ELSE IF Expired(entry, t) THEN [cache |-> MapDelete(m, k), result |-> NoEntry]
  ELSE [cache |-> MapSet(MapDelete(m, k), k, entry), result |-> entry]

\* the entries set() drops before writing: the oldest one when the map is full
LRUevict(m) ==
  IF Len(m) >= MaxSize /\ MapOldest(m) # NoKey THEN {MapOldest(m)} ELSE {}

\* set(key, valid, nullifier)
LRUset(m, k, v, n, t) ==
  LET afterEvict == IF LRUevict(m) = {} THEN m ELSE MapDelete(m, MapOldest(m))
  IN MapSet(afterEvict, k, Entry(k, v, n, t))

(***************************************************************************)
(* History of use: the sequence of held keys, least recently used first.   *)
(***************************************************************************)
SeqWithout(s, k) == SelectSeq(s, LAMBDA x : x # k)

Touch(s, k) == Append(SeqWithout(s, k), k)

RECURSIVE SeqWithoutAll(_, _)
SeqWithoutAll(s, ks) ==
  IF ks = {} THEN s
  ELSE LET k == CHOOSE x \in ks : TRUE IN SeqWithoutAll(SeqWithout(s, k), ks \ {k})

NoTrack == [key |-> NoKey, valid |-> FALSE, nullifier |-> NoKey, at |-> 0, others |-> 0]

NoOp == [op |-> "none", key |-> NoKey, result |-> NoEntry, existed |-> FALSE,
         age |-> 0, full |-> FALSE, evicted |-> {}, lru |-> NoKey, track |-> NoTrack,
         stale |-> {}]

InitCache ==
  /\ memoryCache = <<>>
  /\ proofCacheStore = [k \in Keys |-> NoEntry]
  /\ now = 0
  /\ useOrder = <<>>
  /\ lastOp = NoOp
  /\ tracked = NoTrack

InitStores ==
  /\ nullifierStore = [n \in Nullifiers |-> NoEntry]
  /\ auditLog = <<>>
  /\ nullifierPuts = [n \in Nullifiers |-> 0]

VerifyReqs == 1..MaxVerify

NoResp == [status |-> 0]

IdleVerify ==
  /\ vpc = [r \in VerifyReqs |-> "idle"]
  /\ vbody = [r \in VerifyReqs |-> NoKey]
  /\ vresp = [r \in VerifyReqs |-> NoResp]
  /\ vput = [r \in VerifyReqs |-> FALSE]

IssueReqs == 1..MaxIssue

NoPair == [none |-> TRUE]
NoPrivateKey == 0
NoSubmission == [none |-> TRUE]
NoCredential == [none |-> TRUE]

IdleIssue ==
  /\ escrowStore = [e \in IssueReqs |-> NoEntry]
  /\ credentialStore = [c \in IssueReqs |-> NoEntry]
  /\ ipc = [r \in IssueReqs |-> "idle"]
  /\ isub = [r \in IssueReqs |-> NoSubmission]
  /\ ikey = [r \in IssueReqs |-> NoPair]
  /\ icred = [r \in IssueReqs |-> NoCredential]
  /\ iresp = [r \in IssueReqs |-> NoResp]
  /\ icalls = [r \in IssueReqs |-> <<>>]

EscrowTasks == 1..MaxEscrowOps

NoResult == [kind |-> "none"]

\* what has happened to an escrow id: its put returned, a rotate of it
\* returned deferred, a forced rotate of it returned success
NoHist == [created |-> FALSE, deferred |-> FALSE, shredded |-> FALSE]

\* a call not yet made.  id, key, actor, force: the arguments; entry, remaining,
\* at (the Date.now() a read or a purge compares with), cursor, purged:
\* locals; result: what the call returned or threw; wrote, audits, rotated,
\* seen: history (the writes and audit appends the call has
\* made, the ids a purge has handed to rotateEscrowEntry, and the history of
\* the call's id when it was called)
NoTask ==
  [op |-> "none", pc |-> "idle", id |-> 0, key |-> <<>>, force |-> FALSE,
   entry |-> NoEntry, remaining |-> 0, at |-> 0, cursor |-> 0, purged |-> 0,
   result |-> NoResult, wrote |-> 0, audits |-> <<>>, rotated |-> {},
   seen |-> NoHist, actor |-> "-"]

Done == [NoTask EXCEPT !.pc = "done"]

IdleEscrow ==
  /\ etask = [t \in EscrowTasks |-> NoTask]
  /\ elast = NoTask
  /\ ulids = 0
  /\ allIterable = TRUE
  /\ ehist = [e \in IssueReqs |-> NoHist]

\* aggregateProofs not called
NoCall == [pc |-> "idle", proofs |-> <<>>, vkey |-> "-", settled |-> <<>>,
           result |-> [kind |-> "none"]]

IdleAggregate == acall = NoCall

\* GET /api/v1/verify/:id not called yet
NoGet == [status |-> 0]

\* no verification record created
IdleRecords ==
  /\ verifications = [id \in IssueReqs |-> NoEntry]
  /\ vget = NoGet

\* the concurrent callers of the sanctions module
SanctionCallers == 1..3

\* a caller of the sanctions module that has not called yet
NoCaller == [op |-> "none", pc |-> "idle", index |-> 0, layers |-> <<>>,
             nextLayer |-> <<>>, tree |-> 0, seen |-> [kind |-> "none"]]

\* the sanctions tree not built, nobody calling
IdleTree ==
  /\ sanctionsTree = 0
  /\ stask = [t \in SanctionCallers |-> NoCaller]

\* the signals the process may receive and the handlers that write
Signals == 1..2
Writers == 1..2

NoWriter == [pc |-> "idle", saw |-> "none"]

\* the stores opened by main, no signal received, no handler writing
IdleShutdown ==
  /\ storesInstance = TRUE
  /\ closeCalls = 0
  /\ exited = FALSE
  /\ sigpc = [s \in Signals |-> "idle"]
  /\ hreq = [h \in Writers |-> NoWriter]

\* no issuance whose dates are followed
NoExpiry == [pc |-> "idle", now |-> 0, jurisdiction |-> "-", issuedAt |-> 0,
             credentialExpiresAt |-> 0, createdAt |-> 0, escrowExpiresAt |-> 0]

\* the API keys of the allow-list and one that is not in it
API_KEYS == {"zid_dev_testkey123"}
ApiKeysSent == API_KEYS \cup {"zid_unknown", ""}
ApiReqs == 1..2

NoHeader == <<>>
NoApiReq == [pc |-> "idle", authorization |-> NoHeader, version |-> NoHeader,
             bodyValid |-> FALSE, ran |-> <<>>, status |-> 0]

\* no request in the middleware chain
IdleApi ==
  /\ areq = [q \in ApiReqs |-> NoApiReq]
  /\ ratePoints = [k \in ApiKeysSent |-> 0]

NoDate == [year |-> 0, month |-> 0, day |-> 0]
InvalidDate == [invalid |-> TRUE]
NaN == [nan |-> TRUE, value |-> 0]
Number(n) == [nan |-> FALSE, value |-> n]

\* no age computation followed
NoAgeCase == [pc |-> "idle", dateOfBirth |-> NoDate, today |-> NoDate, dob |-> NoDate,
              age |-> Number(0), outcome |-> "none"]

\* no getEscrowEntry call made
NoRead == [key |-> <<>>, at |-> 0, entry |-> NoEntry, auditOk |-> FALSE,
           result |-> [kind |-> "none"]]

\* no escrow round trip followed
NoRoundTrip == [pc |-> "idle", p |-> <<>>, key |-> <<>>, entry |-> NoEntry, now |-> 0,
                read |-> NoRead]

\* nothing in the audit trail, no issuance under way
IdleTrail == trail = <<>> /\ aflow = NoEntry

\* no cached result yet: -1 stands for no time at all
NoVerifiedAt == [l1 |-> [k \in Keys |-> -1], l2 |-> [k \in Keys |-> -1]]

IdleTtl == verifiedAt = NoVerifiedAt

\* the module-level Set of orbit.ts, empty at load; no peer connected
IdleGate == authorizedPeers = {} /\ connections = {} /\ everAuthorized = {}

IdleLate ==
  /\ IdleRecords /\ IdleTree /\ IdleShutdown /\ expiry = NoExpiry /\ IdleApi
  /\ ageCase = NoAgeCase /\ rt = NoRoundTrip
  /\ IdleTrail /\ IdleTtl /\ IdleGate

NoKeysLoaded ==
  /\ issuerKeyPair = NoPair
  /\ keyFile = NoPair
  /\ envPrivateKey = NoPrivateKey

\* what the cache specifications leave alone
CacheFrame == UNCHANGED <<storeVars, verifyVars, issueVars, escrowVars, acall, lateVars>>

\* the clock advances
Tick ==
  /\ now < MaxTime
  /\ now' = now + 1
  /\ UNCHANGED <<memoryCache, proofCacheStore, useOrder, lastOp, tracked>>
  /\ CacheFrame

\* memoryCache.get(k)
LruGet(k) ==
  LET r == LRUget(memoryCache, k, now)
      before == MapGet(memoryCache, k)
  IN /\ memoryCache' = r.cache
     /\ useOrder' = IF r.result # NoEntry THEN Touch(useOrder, k)
                    ELSE SeqWithout(useOrder, k)
     /\ lastOp' = [op |-> "get", key |-> k, result |-> r.result,
                   existed |-> before # NoEntry,
                   age |-> IF before = NoEntry THEN 0 ELSE now - before.timestamp,
                   full |-> FALSE, evicted |-> {}, lru |-> NoKey, track |-> NoTrack,
                   stale |-> {}]
     /\ UNCHANGED <<proofCacheStore, now, tracked>>
     /\ CacheFrame

\* memoryCache.set(k, v, n)
LruSet(k, v, n) ==
  /\ memoryCache' = LRUset(memoryCache, k, v, n, now)
  /\ useOrder' = Touch(SeqWithoutAll(useOrder, MapKeys(memoryCache) \ MapKeys(memoryCache')), k)
  /\ lastOp' = [op |-> "set", key |-> k, result |-> NoEntry,
                existed |-> MapHas(memoryCache, k), age |-> 0,
                full |-> Len(memoryCache) >= MaxSize,
                evicted |-> MapKeys(memoryCache) \ MapKeys(memoryCache'),
                lru |-> IF useOrder = <<>> THEN NoKey ELSE Head(useOrder),
                track |-> NoTrack,
                stale |-> StaleKeys(memoryCache, now)]
  /\ UNCHANGED <<proofCacheStore, now, tracked>>
  /\ CacheFrame

NextLRU ==
  \/ Tick
  \/ \E k \in Keys : LruGet(k)
  \/ \E k \in Keys : LruSet(k, Groth16Valid(k), SignalNullifier(k))

InitLRU ==
  /\ InitCache /\ InitStores /\ IdleVerify /\ vkeyExists = TRUE
  /\ IdleIssue /\ NoKeysLoaded /\ IdleEscrow /\ IdleAggregate /\ IdleLate

SpecLRU == InitLRU /\ [][NextLRU]_vars

(***************************************************************************)
(* getCached / setCached: the in-memory LRU over the persistent store.     *)
(***************************************************************************)
\* stores.ts cacheProofResult: the entry written under the fingerprint.  The
\* entry's verifiedAt (Date.now()) is written and never read by any code; the
\* variable verifiedAt carries it where the age of a result matters.
cacheProofResult(store, k, v, n) ==
  [store EXCEPT ![k] = [valid |-> v, nullifier |-> n]]

\* stores.ts getCachedProofResult: the entry under the fingerprint, or null
getCachedProofResult(store, k) == store[k]

\* what getCached returns on a hit
Hit(v, n) == [valid |-> v, nullifier |-> n, cached |-> TRUE]

\* getCached, layer 1: the memory cache answer
getCachedL1(m, k, t) ==
  LET r == LRUget(m, k, t) IN
  [cache |-> r.cache,
   result |-> IF r.result = NoEntry THEN NoEntry
              ELSE Hit(r.result.valid, r.result.nullifier)]

\* a second layer that answers from the store without writing the memory layer
getCachedL2NoPromote(m, k, entry, t) ==
  IF entry = NoEntry THEN [cache |-> m, result |-> NoEntry]
  ELSE [cache |-> m, result |-> Hit(entry.valid, entry.nullifier)]

\* getCached, layer 2: entry is what the store read gave (NoEntry when the
\* read threw: the catch swallows it); a found entry is promoted to memory
getCachedL2(m, k, entry, t) ==
  IF entry = NoEntry THEN [cache |-> m, result |-> NoEntry]
  ELSE [cache |-> LRUset(m, k, entry.valid, entry.nullifier, t),
        result |-> Hit(entry.valid, entry.nullifier)]

\* history: the tracked call stays followed while the claim's conditions can
\* still hold: within the TTL, and at most MaxSize - 1 other keys written
Follow(tr, t) ==
  IF tr.key # NoKey /\ (t - tr.at > TtlMs \/ tr.others > MaxSize - 1)
  THEN NoTrack ELSE tr

\* history: another key was written to the memory cache after the tracked call
OtherInserted(tr, k) ==
  IF tr.key # NoKey /\ tr.key # k THEN [tr EXCEPT !.others = @ + 1] ELSE tr

\* the clock advances
CacheTick ==
  /\ now < MaxTime
  /\ now' = now + 1
  /\ tracked' = Follow(tracked, now')
  /\ UNCHANGED <<memoryCache, proofCacheStore, useOrder, lastOp>>
  /\ CacheFrame

\* getCached(k), run to completion; l2ok: the persistent store answers (a
\* throw of the read is swallowed by the catch and counts as a miss)
GetCached(k, l2ok) ==
  LET l1 == getCachedL1(memoryCache, k, now)
      read == IF l2ok THEN getCachedProofResult(proofCacheStore, k) ELSE NoEntry
      l2 == getCachedL2(l1.cache, k, read, now)
      out == IF l1.result # NoEntry THEN l1 ELSE l2
  IN /\ l1.result # NoEntry => l2ok
     /\ memoryCache' = out.cache
     /\ lastOp' = IF tracked.key = k
                   THEN [NoOp EXCEPT !.op = "getCached", !.key = k, !.result = out.result,
                                     !.age = now - tracked.at, !.track = tracked]
                   ELSE [NoOp EXCEPT !.op = "getCached"]
     /\ tracked' = IF tracked.key = k THEN NoTrack
                   ELSE IF l1.result = NoEntry /\ l2.result # NoEntry
                        THEN Follow(OtherInserted(tracked, k), now) ELSE tracked
     /\ UNCHANGED <<proofCacheStore, now, useOrder>>
     /\ CacheFrame

\* setCached(k, v, n), run to completion; l2ok: the persistent write succeeds
\* (a throw is swallowed); start: the history begins to follow this call
SetCached(k, v, n, l2ok, start) ==
  /\ start => tracked.key = NoKey
  /\ memoryCache' = LRUset(memoryCache, k, v, n, now)
  /\ proofCacheStore' = IF l2ok THEN cacheProofResult(proofCacheStore, k, v, n)
                        ELSE proofCacheStore
  /\ tracked' = IF tracked.key = k \/ start
                THEN [key |-> k, valid |-> v, nullifier |-> n, at |-> now, others |-> 0]
                ELSE Follow(OtherInserted(tracked, k), now)
  /\ lastOp' = [NoOp EXCEPT !.op = "setCached"]
  /\ UNCHANGED <<now, useOrder>>
  /\ CacheFrame

NextCache ==
  \/ CacheTick
  \/ \E k \in Keys, l2ok \in BOOLEAN : GetCached(k, l2ok)
  \/ \E k \in Keys, l2ok \in BOOLEAN, start \in BOOLEAN :
       SetCached(k, Groth16Valid(k), SignalNullifier(k), l2ok, start)

SpecCache == InitLRU /\ [][NextCache]_vars

(***************************************************************************)
(* Claims about the cache.                                                 *)
(***************************************************************************)

\* C8: after setCached(f, v, n) completes, the next getCached(f) issued within
\* the TTL, with no more than capacity - 1 writes of other keys in between,
\* returns {valid: v, nullifier: n, cached: true}.
C8_SetThenGetReturnsIt ==
  ( /\ lastOp.op = "getCached"
    /\ lastOp.key # NoKey
    /\ lastOp.track.key = lastOp.key
    /\ lastOp.age <= TtlMs
    /\ lastOp.track.others <= MaxSize - 1 )
  => lastOp.result = Hit(lastOp.track.valid, lastOp.track.nullifier)

\* C9: when the LRU holds maxSize entries and a new key is inserted, exactly
\* one entry is evicted and it is the least recently used one, use being a
\* set or a get hit.
C9_EvictsLeastRecentlyUsed ==
  (lastOp.op = "set" /\ lastOp.full /\ ~lastOp.existed)
  => (Cardinality(lastOp.evicted) = 1 /\ lastOp.evicted = {lastOp.lru})

\* C10: LRUMemoryCache.get never returns an entry older than ttlMs; such an
\* entry is deleted by that read, which reports a miss.
C10_GetNeverReturnsStale ==
  lastOp.op = "get" =>
    /\ lastOp.result # NoEntry => lastOp.age <= TtlMs
    /\ (lastOp.existed /\ lastOp.age > TtlMs) =>
         (lastOp.result = NoEntry /\ ~MapHas(memoryCache, lastOp.key))

\* C10 witness: a get that found an entry older than the TTL
C10_Witness ==
  lastOp.op = "get" /\ lastOp.existed /\ lastOp.age > TtlMs /\ lastOp.result = NoEntry

\* C11: set checks the TTL on insert: when it makes room while the cache
\* holds an entry older than the TTL, what it drops is such an expired entry
\* and not a live one.
C11_SetDropsExpiredFirst ==
  (lastOp.op = "set" /\ lastOp.evicted # {} /\ lastOp.stale # {})
  => lastOp.evicted \subseteq lastOp.stale

(***************************************************************************)
(* Nullifier registry and audit log (stores.ts).                           *)
(***************************************************************************)
\* isNullifierUsed: entry?.used ?? false, with no entry read as false
isNullifierUsed(store, n) == store[n] # NoEntry /\ store[n].used

\* a registerNullifier whose key-value write is lost
registerNullifierPutLost(store, n, credentialId, appId) == store

\* registerNullifier, the key-value write.  The entry's usedAt (Date.now())
\* is written and never read, so the model does not carry it.
registerNullifierPut(store, n, credentialId, appId) ==
  [store EXCEPT ![n] = [used |-> TRUE, credentialId |-> credentialId, appId |-> appId]]

\* an appendAuditLog that resolves without adding the entry
appendAuditLogLost(log, action, resourceId, actor) == log

\* appendAuditLog: one more entry at the end of the event log
appendAuditLog(log, action, resourceId, actor) ==
  Append(log, [action |-> action, resourceId |-> resourceId, actor |-> actor])

AuditCount(log, action, resourceId) ==
  Cardinality({i \in 1..Len(log) : log[i].action = action /\ log[i].resourceId = resourceId})

(***************************************************************************)
(* POST /api/v1/proof/verify.  Each action below is one resumption of the  *)
(* handler of request r: the awaited operation completes (ok) or throws,   *)
(* and the handler runs on to its next await or to its response.           *)
(***************************************************************************)
Resp200(v, n, c) == [status |-> 200, valid |-> v, nullifier |-> n, cached |-> c]
\* res.json(cached): the cache hit itself, with the default status
RespCached(hit) == Resp200(hit.valid, hit.nullifier, hit.cached)
Resp409(n) == [status |-> 409, valid |-> FALSE, nullifier |-> n]
Resp500 == [status |-> 500]

VerifyRespond(r, resp) ==
  /\ vresp' = [vresp EXCEPT ![r] = resp]
  /\ vpc' = [vpc EXCEPT ![r] = "done"]

VerifyGoto(r, pc) ==
  /\ vpc' = [vpc EXCEPT ![r] = pc]
  /\ UNCHANGED vresp

\* the request arrives with body k: hashProof, then getCached up to the read
\* of the persistent cache (lines 32-36, cache.ts 91-98)
VerifyStart(r, k) ==
  LET l1 == getCachedL1(memoryCache, k, now) IN
  /\ vpc[r] = "idle"
  /\ \A q \in VerifyReqs : q < r => vpc[q] # "idle"
  /\ vbody' = [vbody EXCEPT ![r] = k]
  /\ memoryCache' = l1.cache
  /\ IF l1.result # NoEntry THEN VerifyRespond(r, RespCached(l1.result))
     ELSE VerifyGoto(r, "l2get")
  /\ UNCHANGED <<proofCacheStore, now, cacheHistory, storeVars, vkeyExists, vput, issueVars, escrowVars, acall, lateVars>>

\* getCachedProofResult completes; on a miss verifyProof is called, which
\* throws at once when the verification key file is missing (cache.ts 98-108,
\* proof.ts 37-43, verify.ts 25-30)
VerifyL2Get(r, ok) ==
  LET k == vbody[r]
      read == IF ok THEN getCachedProofResult(proofCacheStore, k) ELSE NoEntry
      l2 == getCachedL2(memoryCache, k, read, now)
  IN
  /\ vpc[r] = "l2get"
  /\ memoryCache' = l2.cache
  /\ IF l2.result # NoEntry THEN VerifyRespond(r, RespCached(l2.result))
     ELSE IF ~vkeyExists THEN VerifyRespond(r, Resp500)
     ELSE VerifyGoto(r, "verify")
  /\ UNCHANGED <<proofCacheStore, now, cacheHistory, storeVars, vkeyExists, vbody, vput, issueVars, escrowVars, acall, lateVars>>

\* a handler without the `if (valid)` test: every proof goes on to the
\* nullifier check and registration
VerifyGroth16Unguarded(r) ==
  /\ vpc[r] = "verify"
  /\ VerifyGoto(r, "nullcheck")
  /\ UNCHANGED <<cacheVars, storeVars, vkeyExists, vbody, vput, issueVars, escrowVars, acall, lateVars>>

\* snarkjs.groth16.verify completes.  A valid proof goes on to the read of
\* the nullifier store; an invalid one to setCached, whose memory write is
\* synchronous (proof.ts 43-50 and 66, cache.ts 120-124)
VerifyGroth16(r) ==
  LET k == vbody[r]
      valid == Groth16Valid(k)
  IN
  /\ vpc[r] = "verify"
  /\ IF valid
     THEN /\ VerifyGoto(r, "nullcheck")
          /\ UNCHANGED memoryCache
     ELSE /\ memoryCache' = LRUset(memoryCache, k, valid, SignalNullifier(k), now)
          /\ VerifyGoto(r, "l2put")
  /\ UNCHANGED <<proofCacheStore, now, cacheHistory, storeVars, vkeyExists, vbody, vput, issueVars, escrowVars, acall, lateVars>>

\* isNullifierUsed completes: 409 on a used nullifier, else registerNullifier
\* starts its key-value write (proof.ts 50-62, stores.ts 555-561 and 532-541)
VerifyNullCheck(r, ok) ==
  LET n == SignalNullifier(vbody[r]) IN
  /\ vpc[r] = "nullcheck"
  /\ IF ~ok THEN VerifyRespond(r, Resp500)
     ELSE IF isNullifierUsed(nullifierStore, n) THEN VerifyRespond(r, Resp409(n))
     ELSE VerifyGoto(r, "nullput")
  /\ UNCHANGED <<cacheVars, storeVars, vkeyExists, vbody, vput, issueVars, escrowVars, acall, lateVars>>

\* the write of the nullifier key completes; the audit append starts
\* (stores.ts 541-543)
VerifyNullPut(r, ok) ==
  LET k == vbody[r]
      n == SignalNullifier(k)
  IN
  /\ vpc[r] = "nullput"
  /\ IF ok
     THEN /\ nullifierStore' = registerNullifierPut(nullifierStore, n, "unknown", SignalAppId(k))
          /\ nullifierPuts' = [nullifierPuts EXCEPT ![n] = @ + 1]
          /\ vput' = [vput EXCEPT ![r] = TRUE]
          /\ VerifyGoto(r, "nullaudit")
     ELSE /\ VerifyRespond(r, Resp500)
          /\ UNCHANGED <<nullifierStore, nullifierPuts, vput>>
  /\ UNCHANGED <<cacheVars, auditLog, vkeyExists, vbody, issueVars, escrowVars, acall, lateVars>>

\* the audit append of registerNullifier completes; setCached writes the
\* memory cache and starts the persistent write (stores.ts 543-549,
\* proof.ts 66, cache.ts 120-124)
VerifyNullAudit(r, ok) ==
  LET k == vbody[r]
      n == SignalNullifier(k)
  IN
  /\ vpc[r] = "nullaudit"
  /\ IF ok
     THEN /\ auditLog' = appendAuditLog(auditLog, "nullifier_register", n, "system")
          /\ memoryCache' = LRUset(memoryCache, k, TRUE, n, now)
          /\ VerifyGoto(r, "l2put")
     ELSE /\ VerifyRespond(r, Resp500)
          /\ UNCHANGED <<auditLog, memoryCache>>
  /\ UNCHANGED <<proofCacheStore, now, cacheHistory, nullifierStore, nullifierPuts,
                 vkeyExists, vbody, vput, issueVars, escrowVars, acall, lateVars>>

\* cacheProofResult completes or throws (swallowed); the response is sent
\* (cache.ts 123-127, proof.ts 68)
VerifyL2Put(r, ok) ==
  LET k == vbody[r]
      valid == Groth16Valid(k)
      n == SignalNullifier(k)
  IN
  /\ vpc[r] = "l2put"
  /\ proofCacheStore' = IF ok THEN cacheProofResult(proofCacheStore, k, valid, n)
                        ELSE proofCacheStore
  /\ VerifyRespond(r, Resp200(valid, n, FALSE))
  /\ UNCHANGED <<memoryCache, now, cacheHistory, storeVars, vkeyExists, vbody, vput, issueVars, escrowVars, acall, lateVars>>

NextVerify ==
  \/ \E r \in VerifyReqs, k \in Keys : VerifyStart(r, k)
  \/ \E r \in VerifyReqs, ok \in BOOLEAN : VerifyL2Get(r, ok)
  \/ \E r \in VerifyReqs : VerifyGroth16(r)
  \/ \E r \in VerifyReqs, ok \in BOOLEAN : VerifyNullCheck(r, ok)
  \/ \E r \in VerifyReqs, ok \in BOOLEAN : VerifyNullPut(r, ok)
  \/ \E r \in VerifyReqs, ok \in BOOLEAN : VerifyNullAudit(r, ok)
  \/ \E r \in VerifyReqs, ok \in BOOLEAN : VerifyL2Put(r, ok)

InitVerify ==
  /\ InitCache /\ InitStores /\ IdleVerify
  /\ vkeyExists \in BOOLEAN
  /\ IdleIssue /\ NoKeysLoaded /\ IdleEscrow /\ IdleAggregate /\ IdleLate

SpecVerify == InitVerify /\ [][NextVerify]_vars

(***************************************************************************)
(* Claims about proof verification.                                        *)
(***************************************************************************)
VerifyFresh(r) ==
  /\ vresp[r].status = 200
  /\ vresp[r].valid
  /\ ~vresp[r].cached

\* C1: of two requests whose proofs pass Groth16 verification and carry the
\* same nullifier, at most one is answered valid:true, cached:false, under
\* every interleaving of the two handlers.
C1_AtMostOneFreshPerNullifier ==
  \A r1 \in VerifyReqs : \A r2 \in VerifyReqs \ {r1} :
    ( /\ vbody[r1] # NoKey /\ vbody[r2] # NoKey
      /\ Groth16Valid(vbody[r1]) /\ Groth16Valid(vbody[r2])
      /\ SignalNullifier(vbody[r1]) = SignalNullifier(vbody[r2]) )
    => ~(VerifyFresh(r1) /\ VerifyFresh(r2))

\* C2: each nullifier is consumed exactly once: its key is written to the
\* nullifier store, and a nullifier_register audit entry appended for it, at
\* most one time.
C2_NullifierWrittenOnce ==
  \A n \in Nullifiers :
    /\ nullifierPuts[n] <= 1
    /\ AuditCount(auditLog, "nullifier_register", n) <= 1

\* C3: a request that has ended, by a response or by a failure at any step,
\* never leaves its nullifier registered with no cache layer holding a result
\* for its fingerprint.
C3_RegisteredImpliesCached ==
  \A r \in VerifyReqs :
    (vpc[r] = "done" /\ vput[r])
    => (MapHas(memoryCache, vbody[r]) \/ proofCacheStore[vbody[r]] # NoEntry)

(***************************************************************************)
(* EdDSA (crypto/eddsa.ts).  The BabyJubJub subgroup is modelled by the    *)
(* additive group of integers modulo SubOrder with base point Base8; the   *)
(* Poseidon hashes by small arithmetic maps.  Signing and verification     *)
(* keep the shape of circomlibjs: S = r + h*s and S*B = R8 + h*A.          *)
(***************************************************************************)
Base8 == SubOrder - 1
PrivateKeys == 1..(SubOrder - 1)
Secrets == 1..2
\* the private key an earlier run left in issuer.json, and the one the
\* environment names, when there is one
FileKeys == {2}
EnvKeys == {1}

\* eddsa.prv2pub
prv2pub(priv) == (priv * Base8) % SubOrder

\* hash of (R8, A, msg) inside signPoseidon and verifyPoseidon; never zero
hashRAM(R8, A, msg) == ((R8 + 2 * A + 3 * msg) % (SubOrder - 1)) + 1

\* generateKeyPair with privateKeyBuf = priv
KeyPair(priv) == [privateKey |-> priv, publicKey |-> prv2pub(priv)]

\* sign: eddsa.signPoseidon(privateKey, message)
sign(priv, msg) ==
  LET A == prv2pub(priv)
      r == ((priv + msg) % (SubOrder - 1)) + 1
      R8 == (r * Base8) % SubOrder
      hm == hashRAM(R8, A, msg)
  IN [R8 |-> R8, S |-> (r + hm * priv) % SubOrder]

\* verify: eddsa.verifyPoseidon(message, signature, publicKey)
verify(publicKey, msg, sig) ==
  LET hm == hashRAM(sig.R8, publicKey, msg) IN
  (sig.S * Base8) % SubOrder = (sig.R8 + hm * publicKey) % SubOrder

\* hashCredential: Poseidon(age, countryCode, userSecret)
hashCredential(age, countryCode, userSecret) == (age + countryCode + userSecret) % SubOrder

(***************************************************************************)
(* Sanctions list and KYC provider (kyc/).                                 *)
(***************************************************************************)
SANCTIONED_COUNTRY_CODES == {408, 364, 760, 192, 728}

\* a sanctions check that finds no country listed
isCountrySanctionedNever(countryCode) == FALSE

\* the tree's leaves are the listed codes; indexOf finds a listed code
isCountrySanctioned(countryCode) == countryCode \in SANCTIONED_COUNTRY_CODES

\* submissions: a sanctioned and an unsanctioned country, a name the mock
\* provider accepts and one it rejects
Submissions ==
  {[countryCode |-> 408, fullName |-> "ALICE", age |-> 30],
   [countryCode |-> 840, fullName |-> "ALICE", age |-> 30],
   [countryCode |-> 840, fullName |-> "REJECT", age |-> 30]}

\* mockKycProvider.verify
mockKycVerify(submission) ==
  [passed |-> submission.fullName # "REJECT",
   countryCode |-> submission.countryCode,
   age |-> submission.age]

(***************************************************************************)
(* POST /api/v1/credential.  Credential ids (randomUUID) and escrow ids    *)
(* (ULID) are fresh per request: request r uses id r for both.             *)
(***************************************************************************)
\* the handler's locals go out of scope when it ends
IssueRespond(r, resp) ==
  /\ iresp' = [iresp EXCEPT ![r] = resp]
  /\ ipc' = [ipc EXCEPT ![r] = "done"]
  /\ ikey' = [ikey EXCEPT ![r] = NoPair]
  /\ icred' = [icred EXCEPT ![r] = NoCredential]

IssueGoto(r, pc) ==
  /\ ipc' = [ipc EXCEPT ![r] = pc]
  /\ UNCHANGED <<iresp, ikey, icred>>

\* getIssuerKeyPair returns pair to issueCredential
IssueGotoSign(r, pair) ==
  /\ ipc' = [ipc EXCEPT ![r] = "sign"]
  /\ ikey' = [ikey EXCEPT ![r] = pair]
  /\ UNCHANGED <<iresp, icred>>

IssueCall(r, call) == icalls' = [icalls EXCEPT ![r] = Append(@, call)]

IssueFrame == UNCHANGED <<cacheVars, nullifierStore, nullifierPuts, verifyVars, escrowVars,
                          acall, lateVars>>

\* the request arrives, validated; isCountrySanctioned is awaited (line 41)
IssueStart(r, submission) ==
  /\ ipc[r] = "idle"
  /\ \A q \in IssueReqs : q < r => ipc[q] # "idle"
  /\ isub' = [isub EXCEPT ![r] = submission]
  /\ IssueGoto(r, "sanctions")
  /\ UNCHANGED <<keyVars, escrowStore, credentialStore, auditLog, icalls>>
  /\ IssueFrame

\* the sanctions answer: 403, or the KYC provider is called (lines 42-51)
IssueSanctions(r) ==
  /\ ipc[r] = "sanctions"
  /\ IF isCountrySanctioned(isub[r].countryCode)
     THEN /\ IssueRespond(r, [status |-> 403])
          /\ UNCHANGED icalls
     ELSE /\ IssueCall(r, "kyc.verify")
          /\ IssueGoto(r, "kyc")
  /\ UNCHANGED <<keyVars, escrowStore, credentialStore, auditLog, isub>>
  /\ IssueFrame

\* getIssuerKeyPair up to its first await (keys.ts 36-55)
KeyPathOf(cache, file, env) ==
  IF cache # NoPair THEN "cached"
  ELSE IF file # NoPair THEN "file"
  ELSE IF env # NoPrivateKey THEN "env"
  ELSE "generate"

\* the KYC answer: 422, or issueCredential starts with getIssuerKeyPair,
\* which returns the cached or the file's pair or awaits generateKeyPair
\* (lines 51-62, credential.ts 77, keys.ts 36-55)
IssueKyc(r) ==
  LET path == KeyPathOf(issuerKeyPair, keyFile, envPrivateKey) IN
  /\ ipc[r] = "kyc"
  /\ IF ~mockKycVerify(isub[r]).passed
     THEN /\ IssueRespond(r, [status |-> 422])
          /\ UNCHANGED issuerKeyPair
     ELSE CASE path = "cached" ->
                 /\ IssueGotoSign(r, issuerKeyPair)
                 /\ UNCHANGED issuerKeyPair
            [] path = "file" ->
                 /\ issuerKeyPair' = keyFile
                 /\ IssueGotoSign(r, keyFile)
            [] OTHER ->
                 /\ IssueGoto(r, IF path = "env" THEN "keygenEnv" ELSE "keygen")
                 /\ UNCHANGED issuerKeyPair
  /\ UNCHANGED <<keyFile, envPrivateKey, escrowStore, credentialStore, auditLog,
                 isub, icalls>>
  /\ IssueFrame

\* generateKeyPair completes with a random private key on the environment
\* path: the pair keeps the generated public key and takes the private key
\* of the environment (keys.ts 54-61)
IssueKeyGenEnv(r, priv) ==
  LET kp == KeyPair(priv)
      pair == [kp EXCEPT !.privateKey = envPrivateKey]
  IN
  /\ ipc[r] = "keygenEnv"
  /\ issuerKeyPair' = pair
  /\ IssueGotoSign(r, pair)
  /\ UNCHANGED <<keyFile, envPrivateKey, escrowStore, credentialStore, auditLog,
                 isub, icalls>>
  /\ IssueFrame

\* generateKeyPair completes on the development path: the pair is cached
\* and written to issuer.json (keys.ts 64-83)
IssueKeyGen(r, priv) ==
  /\ ipc[r] = "keygen"
  /\ issuerKeyPair' = KeyPair(priv)
  /\ keyFile' = KeyPair(priv)
  /\ IssueGotoSign(r, KeyPair(priv))
  /\ UNCHANGED <<envPrivateKey, escrowStore, credentialStore, auditLog, isub, icalls>>
  /\ IssueFrame

\* the SignedCredential of issueCredential (credential.ts 79-118); level,
\* boundAddress and the two dates are carried by no claim and left out
issueCredential(id, keyPair, kycResult, userSecret) ==
  LET credHash == hashCredential(kycResult.age, kycResult.countryCode, userSecret)
      signature == sign(keyPair.privateKey, credHash)
  IN [id |-> id,
      credentialHash |-> credHash,
      signatureR8 |-> signature.R8,
      signatureS |-> signature.S,
      issuerPubKey |-> keyPair.publicKey]

\* issueCredential hashes, signs and returns; encryptForEscrow starts the
\* write of the escrow entry (credential.ts 79-118, lines 62-82,
\* escrow.ts 52-57, stores.ts 287-307)
IssueSign(r, userSecret) ==
  /\ ipc[r] = "sign"
  /\ icred' = [icred EXCEPT ![r] = issueCredential(r, ikey[r], mockKycVerify(isub[r]), userSecret)]
  /\ ikey' = [ikey EXCEPT ![r] = NoPair]
  /\ IssueCall(r, "escrow.put")
  /\ ipc' = [ipc EXCEPT ![r] = "escrowput"]
  /\ UNCHANGED <<keyVars, escrowStore, credentialStore, auditLog, isub, iresp>>
  /\ IssueFrame

\* AES-256-GCM (crypto/aes.ts): a ciphertext opens only under the key that
\* made it; under any other key the tag check throws
encrypt(plaintext, key) == [ciphertext |-> plaintext, under |-> key]

DecryptFailed == [failed |-> TRUE]

decrypt(payload, key) ==
  IF payload.under = key THEN payload.ciphertext ELSE DecryptFailed

\* getRegulatorKey: one AES key per regulator id
getRegulatorKey(regulatorId) == <<"key", regulatorId>>

\* the rawPII object the handler passes to encryptForEscrow (lines 71-79)
RawPII(submission) ==
  [fullName |-> submission.fullName, countryCode |-> submission.countryCode]

\* crypto.createHash('sha256'), taken to be collision free
sha256(plaintext) == [sha256 |-> plaintext]

\* getRetentionMs: the same five years for every jurisdiction
getRetentionMs(jurisdiction) == RetentionMs

\* the EscrowEntry of putEscrowEntry; createdAt is read by no code
EscrowEntry(rawPII, regulatorKey, regulatorKeyId, credentialId, t) ==
  [encryptedBlob |-> encrypt(rawPII, regulatorKey),
   regulatorKeyId |-> regulatorKeyId,
   credentialId |-> credentialId,
   expiresAt |-> t + getRetentionMs("US"),
   invalidated |-> FALSE,
   integrityHash |-> sha256(rawPII)]

\* a putEscrowEntry whose key-value write is lost
putEscrowEntryLost(store, escrowId, entry) == store

\* putEscrowEntry, the key-value write
putEscrowEntryWrite(store, escrowId, entry) == [store EXCEPT ![escrowId] = entry]

\* putCredential, the document write
putCredentialWrite(store, credentialData) ==
  [store EXCEPT ![credentialData.id] = credentialData]

\* the catch block of the handler (lines 99-105)
IssueCatch(r) == IssueRespond(r, Resp500)

\* the escrow write completes or throws; the escrow_create audit append
\* starts (stores.ts 307-310).  The entry was built before the await; the
\* clock stands still while requests are served.
IssueEscrowPut(r, ok) ==
  /\ ipc[r] = "escrowput"
  /\ IF ok
     THEN /\ escrowStore' = putEscrowEntryWrite(escrowStore, r,
                               EscrowEntry(RawPII(isub[r]), getRegulatorKey("default"),
                                           "default", icred[r].id, now))
          /\ IssueCall(r, "audit.add")
          /\ IssueGoto(r, "escrowaudit")
     ELSE /\ IssueCatch(r)
          /\ UNCHANGED <<escrowStore, icalls>>
  /\ UNCHANGED <<keyVars, credentialStore, auditLog, isub>>
  /\ IssueFrame

\* the escrow_create audit append completes or throws; putCredential starts
\* the document write (stores.ts 310-316, lines 85-91, stores.ts 467-485)
IssueEscrowAudit(r, ok) ==
  /\ ipc[r] = "escrowaudit"
  /\ IF ok
     THEN /\ auditLog' = appendAuditLog(auditLog, "escrow_create", r, "system")
          /\ IssueCall(r, "credentials.put")
          /\ IssueGoto(r, "credput")
     ELSE /\ IssueCatch(r)
          /\ UNCHANGED <<auditLog, icalls>>
  /\ UNCHANGED <<keyVars, escrowStore, credentialStore, isub>>
  /\ IssueFrame

\* the credential write completes or throws; the credential_issue audit
\* append starts (stores.ts 469-488)
IssueCredPut(r, ok) ==
  /\ ipc[r] = "credput"
  /\ IF ok
     THEN /\ credentialStore' = putCredentialWrite(credentialStore, icred[r])
          /\ IssueCall(r, "audit.add")
          /\ IssueGoto(r, "credaudit")
     ELSE /\ IssueCatch(r)
          /\ UNCHANGED <<credentialStore, icalls>>
  /\ UNCHANGED <<keyVars, escrowStore, auditLog, isub>>
  /\ IssueFrame

\* the credential_issue audit append completes or throws; 201 with the
\* credential and the escrow id (stores.ts 488-494, lines 94-98)
IssueCredAudit(r, ok) ==
  /\ ipc[r] = "credaudit"
  /\ IF ok
     THEN /\ auditLog' = appendAuditLog(auditLog, "credential_issue", icred[r].id, "system")
          /\ IssueRespond(r, [status |-> 201, credential |-> icred[r], escrowId |-> r])
     ELSE /\ IssueCatch(r)
          /\ UNCHANGED auditLog
  /\ UNCHANGED <<keyVars, escrowStore, credentialStore, isub, icalls>>
  /\ IssueFrame

NextIssue ==
  \/ \E r \in IssueReqs, submission \in Submissions : IssueStart(r, submission)
  \/ \E r \in IssueReqs : IssueSanctions(r)
  \/ \E r \in IssueReqs : IssueKyc(r)
  \/ \E r \in IssueReqs, priv \in PrivateKeys : IssueKeyGenEnv(r, priv)
  \/ \E r \in IssueReqs, priv \in PrivateKeys : IssueKeyGen(r, priv)
  \/ \E r \in IssueReqs, userSecret \in Secrets : IssueSign(r, userSecret)
  \/ \E r \in IssueReqs, ok \in BOOLEAN : IssueEscrowPut(r, ok)
  \/ \E r \in IssueReqs, ok \in BOOLEAN : IssueEscrowAudit(r, ok)
  \/ \E r \in IssueReqs, ok \in BOOLEAN : IssueCredPut(r, ok)
  \/ \E r \in IssueReqs, ok \in BOOLEAN : IssueCredAudit(r, ok)

\* the server starts with no cached pair; issuer.json is absent or holds a
\* pair written by an earlier run; the environment names a key or not
InitIssue ==
  /\ InitCache /\ InitStores /\ IdleVerify /\ vkeyExists = TRUE
  /\ IdleIssue /\ IdleEscrow /\ IdleAggregate /\ IdleLate
  /\ issuerKeyPair = NoPair
  /\ keyFile \in {NoPair} \cup {KeyPair(priv) : priv \in FileKeys}
  /\ envPrivateKey \in {NoPrivateKey} \cup EnvKeys

SpecIssue == InitIssue /\ [][NextIssue]_vars

(***************************************************************************)
(* Claims about credential issuance.                                       *)
(***************************************************************************)
EscrowFor(credentialId) ==
  {e \in IssueReqs : escrowStore[e] # NoEntry /\ escrowStore[e].credentialId = credentialId}

\* C4: in every reachable state of POST /credential, failures at any await
\* included, every credential document in the credential store has an escrow
\* entry whose credentialId is that credential's id, and a 201 response is
\* sent only after both are stored.
C4_CredentialHasEscrow ==
  /\ \A c \in IssueReqs :
       credentialStore[c] # NoEntry => EscrowFor(credentialStore[c].id) # {}
  /\ \A r \in IssueReqs :
       iresp[r].status = 201 =>
         /\ credentialStore[iresp[r].credential.id] # NoEntry
         /\ escrowStore[iresp[r].escrowId] # NoEntry
         /\ escrowStore[iresp[r].escrowId].credentialId = iresp[r].credential.id

\* a credential is stored and its request then failed at the audit append
C4_Witness ==
  \E r \in IssueReqs :
    /\ credentialStore[r] # NoEntry
    /\ iresp[r].status = 500
    /\ EscrowFor(credentialStore[r].id) = {r}

\* store calls that undo an escrow write: stores.escrow.del, or a forced
\* rotateEscrowEntry
RollbackCalls == {"escrow.del", "escrow.rotate"}

RollbackAttempted(r) == \E i \in 1..Len(icalls[r]) : icalls[r][i] \in RollbackCalls

\* C5: when the escrow entry has been written and a later step fails, the
\* handler attempts to roll the escrow write back before it answers 500: no
\* 500 is sent while the request's escrow entry is stored and no rollback
\* call has been made.
C5_RollbackBefore500 ==
  \A r \in IssueReqs :
    (iresp[r].status = 500 /\ escrowStore[r] # NoEntry) => RollbackAttempted(r)

WroteNothing(r) ==
  /\ escrowStore[r] = NoEntry
  /\ credentialStore[r] = NoEntry
  /\ AuditCount(auditLog, "escrow_create", r) = 0
  /\ AuditCount(auditLog, "credential_issue", r) = 0

\* C6: a request for a sanctioned country is answered 403 having called
\* neither the KYC provider nor any store; a request whose KYC result has
\* passed = false is answered 422 having called the provider and no store;
\* both leave the escrow store, the credential store and the audit log as
\* they found them.
C6_RejectionWritesNothing ==
  \A r \in IssueReqs : ipc[r] = "done" =>
    /\ (iresp[r].status = 403 \/ isub[r].countryCode \in SANCTIONED_COUNTRY_CODES)
       => (iresp[r].status = 403 /\ icalls[r] = <<>> /\ WroteNothing(r))
    /\ (iresp[r].status = 422
        \/ (isub[r].countryCode \notin SANCTIONED_COUNTRY_CODES /\ isub[r].fullName = "REJECT"))
       => (iresp[r].status = 422 /\ icalls[r] = <<"kyc.verify">> /\ WroteNothing(r))

\* one request was rejected, 403 or 422, while the other was issued its
\* credential, so the stores and the audit log are not empty
C6_Witness ==
  \E r1 \in IssueReqs, r2 \in IssueReqs :
    /\ iresp[r1].status \in {403, 422}
    /\ iresp[r2].status = 201

\* C7: for every credential issueCredential returns, in every key-loading
\* path, the signature verifies under the credential's own issuerPubKey for
\* its credentialHash.
C7_SignatureVerifies ==
  \A r \in IssueReqs :
    icred[r] # NoCredential =>
      verify(icred[r].issuerPubKey, icred[r].credentialHash,
             [R8 |-> icred[r].signatureR8, S |-> icred[r].signatureS])

(***************************************************************************)
(* Escrow operations (stores.ts): putEscrowEntry, getEscrowEntry,          *)
(* rotateEscrowEntry, purgeExpiredEscrow, called by any number of tasks.   *)
(* Each action is one resumption of a call: the awaited store operation    *)
(* completes (ok) or throws, and the call runs on to its next await, its   *)
(* return or its throw.                                                    *)
(***************************************************************************)
EscrowIds == IssueReqs

\* the plaintext a put escrows, and the keys a reader may present
EscrowPii == RawPII([fullName |-> "ALICE", countryCode |-> 840])
ReaderKeys == {getRegulatorKey("default"), getRegulatorKey("other")}

Returned(value) == [kind |-> "return", value |-> value]
Thrown(message) == [kind |-> "throw", message |-> message]

\* appendAuditLog of an entry whose metadata carries a result
appendAuditLogResult(log, action, resourceId, actor, result) ==
  Append(log, [action |-> action, resourceId |-> resourceId, actor |-> actor,
               result |-> result])

\* the three checks of getEscrowEntry on the entry read (lines 334-336)
getEscrowCheck(entry, t) ==
  IF entry = NoEntry THEN "Escrow entry not found"
  ELSE IF entry.invalidated THEN "Escrow entry has been invalidated"
  ELSE IF t > entry.expiresAt THEN "Escrow entry has expired"
  ELSE "ok"

\* a getEscrowEntry without the integrity check
getEscrowOpenUnchecked(entry, regulatorKey) ==
  LET plaintext == decrypt(entry.encryptedBlob, regulatorKey) IN
  IF plaintext = DecryptFailed THEN Thrown("decrypt failed")
  ELSE Returned(plaintext)

\* decryption and integrity check of getEscrowEntry (lines 348-356)
getEscrowOpen(entry, regulatorKey) ==
  LET plaintext == decrypt(entry.encryptedBlob, regulatorKey) IN
  IF plaintext = DecryptFailed THEN Thrown("decrypt failed")
  ELSE IF sha256(plaintext) # entry.integrityHash
       THEN Thrown("Escrow integrity check failed")
  ELSE Returned(plaintext)

\* a rotateEscrowEntry that finds no retention left, whatever the clock
retentionRemainingNone(entry, t) == 0

\* retentionRemaining of rotateEscrowEntry (line 382)
retentionRemaining(entry, t) == entry.expiresAt - t

\* a rotateEscrowEntry that never defers
rotateDefersNever(entry, t, forceErasure) == FALSE

\* whether rotateEscrowEntry defers (line 383)
rotateDefers(entry, t, forceErasure) == retentionRemaining(entry, t) > 0 /\ ~forceErasure

\* a rotateEscrowEntry that writes the entry back as it read it
shreddedNot(entry) == entry

\* the crypto-shredded entry of rotateEscrowEntry (lines 402-410): random
\* bytes under a random key that is thrown away
shredded(entry) ==
  [entry EXCEPT !.encryptedBlob = encrypt([random |-> TRUE], <<"key", "discarded">>),
                !.invalidated = TRUE,
                !.integrityHash = [invalidated |-> TRUE]]

\* the test of purgeExpiredEscrow on an entry it iterates over (line 439)
purgeSelects(entry, t) ==
  entry # NoEntry /\ t > entry.expiresAt /\ ~entry.invalidated

EscrowFrame == UNCHANGED <<cacheVars, nullifierStore, nullifierPuts, verifyVars,
                           keyVars, credentialStore, ipc, isub, ikey, icred, iresp, icalls,
                           allIterable, acall, lateVars>>

\* task t is the next one to make a call
EscrowNextTask(t) ==
  /\ etask[t].pc = "idle"
  /\ \A q \in EscrowTasks : q < t => etask[q].pc # "idle"

\* no escrow call is in flight
EscrowQuiet == \A q \in EscrowTasks : etask[q].pc \in {"idle", "done"}

\* the callers of SpecEscrow make their calls one after the other
EscrowCanStart(t) == EscrowNextTask(t) /\ EscrowQuiet

\* the call of task t goes on
EscrowSet(t, task) ==
  /\ etask' = [etask EXCEPT ![t] = task]
  /\ UNCHANGED elast

\* the call of task t returns or throws; elast keeps the finished call
EscrowFinish(t, task, result) ==
  /\ etask' = [etask EXCEPT ![t] = Done]
  /\ elast' = [task EXCEPT !.pc = "done", !.result = result]

\* the clock advances
EscrowTick ==
  /\ now < MaxTime
  /\ now' = now + 1
  /\ UNCHANGED <<memoryCache, proofCacheStore, cacheHistory, storeVars, verifyVars,
                 issueVars, escrowVars, acall, lateVars>>

\* encryptForEscrow: a fresh ULID, then putEscrowEntry up to its key-value
\* write; the entry is built with Date.now() before the await
\* (escrow.ts 52-62, stores.ts 287-307)
EscrowPutCall(t) ==
  /\ EscrowNextTask(t)
  /\ ulids < MaxIssue
  /\ ulids' = ulids + 1
  /\ EscrowSet(t, [NoTask EXCEPT !.op = "put", !.pc = "put.kv", !.id = ulids + 1,
                                 !.entry = EscrowEntry(EscrowPii, getRegulatorKey("default"),
                                                       "default", ulids + 1, now)])
  /\ UNCHANGED <<escrowStore, auditLog, now, ehist>>
  /\ EscrowFrame

EscrowPutStart(t) == EscrowQuiet /\ EscrowPutCall(t)

\* the key-value write completes or throws (stores.ts 307)
EscrowPutKV(t, ok) ==
  /\ etask[t].pc = "put.kv"
  /\ IF ok
     THEN /\ escrowStore' = putEscrowEntryWrite(escrowStore, etask[t].id, etask[t].entry)
          /\ EscrowSet(t, [etask[t] EXCEPT !.pc = "put.audit", !.wrote = @ + 1])
     ELSE /\ EscrowFinish(t, etask[t], Thrown("store"))
          /\ UNCHANGED escrowStore
  /\ UNCHANGED <<auditLog, now, ulids, ehist>>
  /\ EscrowFrame

\* the escrow_create audit append completes or throws (stores.ts 310-316)
EscrowPutAudit(t, ok) ==
  /\ etask[t].pc = "put.audit"
  /\ IF ok
     THEN /\ auditLog' = appendAuditLog(auditLog, "escrow_create", etask[t].id, "system")
          /\ EscrowFinish(t, etask[t], Returned("void"))
          /\ ehist' = [ehist EXCEPT ![etask[t].id].created = TRUE]
     ELSE /\ EscrowFinish(t, etask[t], Thrown("store"))
          /\ UNCHANGED <<auditLog, ehist>>
  /\ UNCHANGED <<escrowStore, now, ulids>>
  /\ EscrowFrame

\* getEscrowEntry is called and awaits the read (stores.ts 327-333)
EscrowGetStart(t, id, regulatorKey) ==
  /\ EscrowCanStart(t)
  /\ EscrowSet(t, [NoTask EXCEPT !.op = "get", !.pc = "get.kv", !.id = id,
                                 !.key = regulatorKey, !.actor = "reader",
                                 !.seen = ehist[id]])
  /\ UNCHANGED <<escrowStore, auditLog, now, ulids, ehist>>
  /\ EscrowFrame

\* a getEscrowEntry that appends its escrow_access entry before the three
\* checks
EscrowGetKVAuditsFirst(t, ok) ==
  LET entry == escrowStore[etask[t].id]
      check == getEscrowCheck(entry, now)
      task  == [etask[t] EXCEPT !.entry = entry, !.at = now]
  IN
  /\ etask[t].pc = "get.kv"
  /\ IF ~ok THEN EscrowFinish(t, etask[t], Thrown("store")) /\ UNCHANGED auditLog
     ELSE /\ auditLog' = appendAuditLog(auditLog, "escrow_access", etask[t].id, etask[t].actor)
          /\ IF check # "ok" THEN EscrowFinish(t, task, Thrown(check))
             ELSE EscrowSet(t, [task EXCEPT !.pc = "get.audit"])
  /\ UNCHANGED <<escrowStore, now, ulids, ehist>>
  /\ EscrowFrame

\* the read completes or throws; the three checks; the escrow_access audit
\* append starts (stores.ts 333-345)
EscrowGetKV(t, ok) ==
  LET entry == escrowStore[etask[t].id]
      check == getEscrowCheck(entry, now)
      task  == [etask[t] EXCEPT !.entry = entry, !.at = now]
  IN
  /\ etask[t].pc = "get.kv"
  /\ IF ~ok THEN EscrowFinish(t, etask[t], Thrown("store"))
     ELSE IF check # "ok" THEN EscrowFinish(t, task, Thrown(check))
     ELSE EscrowSet(t, [task EXCEPT !.pc = "get.audit"])
  /\ UNCHANGED <<escrowStore, auditLog, now, ulids, ehist>>
  /\ EscrowFrame

\* the audit append completes or throws; the blob is decrypted and checked
\* (stores.ts 339-358)
EscrowGetAudit(t, ok) ==
  /\ etask[t].pc = "get.audit"
  /\ IF ok
     THEN /\ auditLog' = appendAuditLog(auditLog, "escrow_access", etask[t].id, etask[t].actor)
          /\ EscrowFinish(t, etask[t], getEscrowOpen(etask[t].entry, etask[t].key))
     ELSE /\ EscrowFinish(t, etask[t], Thrown("store"))
          /\ UNCHANGED auditLog
  /\ UNCHANGED <<escrowStore, now, ulids, ehist>>
  /\ EscrowFrame

\* new Date(ms).toISOString()
toISOString(ms) == [iso |-> ms]

RotateNotFound == [success |-> FALSE, reason |-> <<"Entry not found">>]
RotateDeferred(entry) ==
  [success |-> FALSE,
   reason |-> <<"Retention period active until", toISOString(entry.expiresAt)>>]
RotateCompleted == [success |-> TRUE, reason |-> <<"Entry crypto-shredded and invalidated">>]

\* what rotateEscrowEntry has done to the history of its id when it returns
RotateHist(task, value) ==
  [ehist[task.id] EXCEPT
     !.deferred = @ \/ (~value.success /\ task.entry # NoEntry),
     !.shredded = @ \/ (value.success /\ task.force)]

\* rotateEscrowEntry returns value: to its caller if it was called directly,
\* to the loop of purgeExpiredEscrow (purged++, line 441) otherwise
RotateReturn(t, task, value) ==
  /\ ehist' = [ehist EXCEPT ![task.id] = RotateHist(task, value)]
  /\ IF task.op = "rotate"
     THEN EscrowFinish(t, task, Returned(value))
     ELSE EscrowSet(t, [task EXCEPT !.pc = "purge.iter", !.purged = @ + 1,
                                    !.cursor = @ + 1,
                                    !.rotated = @ \cup {task.id}])

\* rotateEscrowEntry throws: purgeExpiredEscrow has no catch
RotateThrow(t, task) ==
  /\ EscrowFinish(t, task, Thrown("store"))
  /\ UNCHANGED ehist

\* rotateEscrowEntry (or requestErasure, escrow.ts 88-93, without force) is
\* called and awaits the read (stores.ts 370-376)
EscrowRotateStart(t, id, forceErasure) ==
  /\ EscrowCanStart(t)
  /\ EscrowSet(t, [NoTask EXCEPT !.op = "rotate", !.pc = "rot.kv", !.id = id,
                                 !.force = forceErasure, !.seen = ehist[id]])
  /\ UNCHANGED <<escrowStore, auditLog, now, ulids, ehist>>
  /\ EscrowFrame

\* the read completes or throws; not found returns; the retention check
\* either starts the deferred audit append or builds the shredded entry and
\* starts its write (stores.ts 376-412)
EscrowRotateKV(t, ok) ==
  LET entry == escrowStore[etask[t].id]
      task  == [etask[t] EXCEPT !.entry = entry,
                                !.remaining = IF entry = NoEntry THEN 0
                                              ELSE retentionRemaining(entry, now)]
  IN
  /\ etask[t].pc = "rot.kv"
  /\ IF ~ok THEN RotateThrow(t, etask[t])
     ELSE IF entry = NoEntry THEN RotateReturn(t, task, RotateNotFound)
     ELSE IF rotateDefers(entry, now, etask[t].force)
          THEN EscrowSet(t, [task EXCEPT !.pc = "rot.defer"]) /\ UNCHANGED ehist
     ELSE EscrowSet(t, [task EXCEPT !.pc = "rot.put"]) /\ UNCHANGED ehist
  /\ UNCHANGED <<escrowStore, auditLog, now, ulids>>
  /\ EscrowFrame

\* the deferred audit append completes or throws (stores.ts 384-398)
EscrowRotateDeferAudit(t, ok) ==
  /\ etask[t].pc = "rot.defer"
  /\ IF ok
     THEN /\ auditLog' = appendAuditLogResult(auditLog, "escrow_rotate", etask[t].id,
                                              "actor", "deferred")
          /\ RotateReturn(t, [etask[t] EXCEPT !.audits = Append(@, "deferred")],
                          RotateDeferred(etask[t].entry))
     ELSE /\ RotateThrow(t, etask[t])
          /\ UNCHANGED auditLog
  /\ UNCHANGED <<escrowStore, now, ulids>>
  /\ EscrowFrame

\* the write of the shredded entry completes or throws (stores.ts 402-412)
EscrowRotatePut(t, ok) ==
  /\ etask[t].pc = "rot.put"
  /\ IF ok
     THEN /\ escrowStore' = putEscrowEntryWrite(escrowStore, etask[t].id,
                                                shredded(etask[t].entry))
          /\ EscrowSet(t, [etask[t] EXCEPT !.pc = "rot.audit", !.wrote = @ + 1])
          /\ UNCHANGED ehist
     ELSE /\ RotateThrow(t, etask[t])
          /\ UNCHANGED escrowStore
  /\ UNCHANGED <<auditLog, now, ulids>>
  /\ EscrowFrame

\* the completed audit append completes or throws (stores.ts 414-422)
EscrowRotateAudit(t, ok) ==
  /\ etask[t].pc = "rot.audit"
  /\ IF ok
     THEN /\ auditLog' = appendAuditLogResult(auditLog, "escrow_rotate", etask[t].id,
                                              "actor", "completed")
          /\ RotateReturn(t, [etask[t] EXCEPT !.audits = Append(@, "completed")],
                          RotateCompleted)
     ELSE /\ RotateThrow(t, etask[t])
          /\ UNCHANGED auditLog
  /\ UNCHANGED <<escrowStore, now, ulids>>
  /\ EscrowFrame

\* purgeExpiredEscrow is called: now is read once, and the loop is entered
\* only when stores.escrow.all is an async iterable (stores.ts 429-437)
EscrowPurgeStart(t) ==
  /\ EscrowCanStart(t)
  /\ IF allIterable
     THEN EscrowSet(t, [NoTask EXCEPT !.op = "purge", !.pc = "purge.iter", !.at = now,
                                      !.cursor = 1])
     ELSE EscrowFinish(t, [NoTask EXCEPT !.op = "purge", !.at = now], Returned(0))
  /\ UNCHANGED <<escrowStore, auditLog, now, ulids, ehist>>
  /\ EscrowFrame

\* the iterator yields its next entry, which is tested and, if selected,
\* handed to rotateEscrowEntry with force; at the end purged is returned
\* (stores.ts 437-450)
EscrowPurgeNext(t) ==
  LET cursor == etask[t].cursor IN
  /\ etask[t].pc = "purge.iter"
  /\ IF cursor \notin EscrowIds
     THEN EscrowFinish(t, etask[t], Returned(etask[t].purged))
     ELSE IF purgeSelects(escrowStore[cursor], etask[t].at)
          THEN EscrowSet(t, [etask[t] EXCEPT !.pc = "rot.kv", !.id = cursor,
                                             !.force = TRUE])
     ELSE EscrowSet(t, [etask[t] EXCEPT !.cursor = @ + 1])
  /\ UNCHANGED <<escrowStore, auditLog, now, ulids, ehist>>
  /\ EscrowFrame

NextEscrow ==
  \/ EscrowTick
  \/ \E t \in EscrowTasks :
       \/ EscrowPutStart(t)
       \/ \E ok \in BOOLEAN : EscrowPutKV(t, ok)
       \/ \E ok \in BOOLEAN : EscrowPutAudit(t, ok)
       \/ \E id \in EscrowIds, regulatorKey \in ReaderKeys : EscrowGetStart(t, id, regulatorKey)
       \/ \E ok \in BOOLEAN : EscrowGetKV(t, ok)
       \/ \E ok \in BOOLEAN : EscrowGetAudit(t, ok)
       \/ \E id \in EscrowIds, forceErasure \in BOOLEAN : EscrowRotateStart(t, id, forceErasure)
       \/ \E ok \in BOOLEAN : EscrowRotateKV(t, ok)
       \/ \E ok \in BOOLEAN : EscrowRotateDeferAudit(t, ok)
       \/ \E ok \in BOOLEAN : EscrowRotatePut(t, ok)
       \/ \E ok \in BOOLEAN : EscrowRotateAudit(t, ok)
       \/ EscrowPurgeStart(t)
       \/ EscrowPurgeNext(t)

InitEscrow ==
  /\ InitCache /\ InitStores /\ IdleVerify /\ vkeyExists = TRUE
  /\ IdleIssue /\ NoKeysLoaded /\ IdleAggregate /\ IdleLate
  /\ etask = [t \in EscrowTasks |-> NoTask]
  /\ elast = NoTask
  /\ ulids = 0
  /\ allIterable \in BOOLEAN
  /\ ehist = [e \in EscrowIds |-> NoHist]

SpecEscrow == InitEscrow /\ [][NextEscrow]_vars

\* concurrent issuance requests: putEscrowEntry calls that overlap
NextEscrowPut ==
  \/ EscrowTick
  \/ \E t \in EscrowTasks :
       \/ EscrowPutCall(t)
       \/ \E ok \in BOOLEAN : EscrowPutKV(t, ok)
       \/ \E ok \in BOOLEAN : EscrowPutAudit(t, ok)

SpecEscrowPut == InitEscrow /\ [][NextEscrowPut]_vars


(***************************************************************************)
(* Claims about the escrow operations.                                     *)
(***************************************************************************)
\* the last entry of the audit log
LastAudit == auditLog[Len(auditLog)]

\* the call that finished last was a rotation without force of an entry
\* that had retention left
DeferredCase ==
  /\ elast.op = "rotate"
  /\ elast.result.kind = "return"
  /\ elast.entry # NoEntry
  /\ ~elast.force
  /\ elast.remaining > 0

\* the call that finished last was a read with the regulator's key of an
\* id a rotation of which had been deferred, and the read was not stopped
\* by a store failure, by the expiry or by a later erasure
ReadAfterDeferral ==
  /\ elast.op = "get"
  /\ elast.seen.deferred
  /\ elast.key = getRegulatorKey("default")
  /\ ~escrowStore[elast.id].invalidated
  /\ elast.result.kind = "throw" =>
       elast.result.message \notin {"store", "Escrow entry has expired"}

\* C12: rotateEscrowEntry(id, actor) without force on an entry with
\* retention remaining returns success = false with a reason naming the ISO
\* expiry, appends exactly one escrow_rotate audit entry with result
\* 'deferred', and writes nothing to the store: the entry stays as it was
\* read, and a following getEscrowEntry with the regulator key returns the
\* original PII.
C12_DeferredRotateLeavesEntry ==
  /\ DeferredCase =>
       /\ elast.result.value = RotateDeferred(elast.entry)
       /\ elast.wrote = 0
       /\ elast.audits = <<"deferred">>
       /\ EscrowQuiet =>
            /\ escrowStore[elast.id] = elast.entry
            /\ LastAudit = [action |-> "escrow_rotate", resourceId |-> elast.id,
                            actor |-> "actor", result |-> "deferred"]
  /\ ReadAfterDeferral => elast.result = Returned(EscrowPii)

\* a rotation was deferred and the read that followed returned the PII
C12_Witness ==
  /\ elast.op = "get"
  /\ elast.seen.deferred
  /\ elast.result = Returned(EscrowPii)


\* the call that finished last was a getEscrowEntry made after a forced
\* rotation of its id had returned success
ReadAfterErasure == elast.op = "get" /\ elast.seen.shredded

\* C13: after rotateEscrowEntry(id, actor, true) has returned success = true,
\* every later getEscrowEntry of that id, with any regulator key, fails; when
\* the store read itself succeeds it fails with the 'invalidated' error,
\* never with 'not found', and it never returns PII.
C13_ErasedEntryStaysUnreadable ==
  ReadAfterErasure =>
    /\ elast.result.kind = "throw"
    /\ elast.result.message # "Escrow entry not found"
    /\ elast.result.message # "store" =>
         elast.result.message = "Escrow entry has been invalidated"

\* a read with the regulator's own key after a forced erasure was refused as
\* invalidated
C13_Witness ==
  /\ ReadAfterErasure
  /\ elast.key = getRegulatorKey("default")
  /\ elast.result = Thrown("Escrow entry has been invalidated")


Invalidated(entry) == entry # NoEntry /\ entry.invalidated

\* no regulator key opens the entry
Unreadable(entry) ==
  /\ getEscrowCheck(entry, now) # "ok"
  /\ \A regulatorKey \in ReaderKeys : getEscrowOpen(entry, regulatorKey).kind = "throw"

\* the step is the shredded write of a rotateEscrowEntry of id (called
\* directly, by requestErasure or by purgeExpiredEscrow) that found the
\* retention run out or was forced
RotateWrites(id) ==
  \E t \in EscrowTasks :
    /\ etask[t].pc = "rot.put"
    /\ etask'[t].pc = "rot.audit"
    /\ etask[t].id = id
    /\ etask[t].op \in {"rotate", "purge"}
    /\ etask[t].force \/ now >= etask[t].entry.expiresAt

\* C14: the invalidated flag of an entry goes from false to true only in
\* the write of a rotateEscrowEntry, and only when the retention had run
\* out or forceErasure was set; an invalidated entry stays invalidated and
\* unreadable through every step of every escrow operation.
C14_InvalidatedOnlyByRotate ==
  [][\A id \in EscrowIds :
       /\ (~Invalidated(escrowStore[id]) /\ Invalidated(escrowStore'[id]))
            => RotateWrites(id)
       /\ Invalidated(escrowStore[id])
            => Invalidated(escrowStore'[id]) /\ Unreadable(escrowStore'[id])]_vars

\* an entry whose erasure had been deferred was invalidated by a later
\* rotation, and a further call has run over it
C14_Witness ==
  \E id \in EscrowIds :
    /\ Invalidated(escrowStore[id])
    /\ ehist[id].deferred
    /\ ehist[id].shredded
    /\ elast.op \in {"get", "purge"}


\* the call that finished last was a purgeExpiredEscrow that returned
PurgeReturned ==
  /\ elast.op = "purge"
  /\ elast.result.kind = "return"
  /\ EscrowQuiet

\* the entries past expiresAt at the now of the purge
PastExpiry(t) ==
  {id \in EscrowIds : escrowStore[id] # NoEntry /\ t > escrowStore[id].expiresAt}

\* what C15 asks of a purge that returned n
PurgeShredsExpired ==
  PurgeReturned =>
    /\ elast.result.value = Cardinality(elast.rotated)
    /\ elast.wrote = Cardinality(elast.rotated)
    /\ elast.rotated \subseteq PastExpiry(elast.at)
    /\ \A id \in PastExpiry(elast.at) : Invalidated(escrowStore[id])

\* C15: purgeExpiredEscrow crypto-shreds exactly the entries past expiresAt
\* and not yet invalidated: when it returns n, n entries were handed to
\* rotateEscrowEntry and written, all of them past expiresAt, and every
\* entry past expiresAt is invalidated.
C15_PurgeShredsExpired == PurgeShredsExpired

\* the same, for the builds in which stores.escrow.all is an async iterable
PurgeShredsExpiredIfIterable == allIterable => PurgeShredsExpired


\* the call that finished last threw because a store operation failed
StoreFailed == elast.result.kind = "throw" /\ elast.result.message = "store"

\* a read that found a live entry at the very millisecond of its expiresAt
\* fails with the 'expired' error
ReadAtExpiryFails ==
  (/\ elast.op = "get"
   /\ elast.entry # NoEntry
   /\ ~elast.entry.invalidated
   /\ elast.at = elast.entry.expiresAt
   /\ ~StoreFailed)
  => elast.result = Thrown("Escrow entry has expired")

\* a rotation without force that found retentionRemaining = 0 is not
\* deferred
RotateAtExpiryShreds ==
  (/\ elast.op = "rotate"
   /\ elast.result.kind = "return"
   /\ elast.entry # NoEntry
   /\ ~elast.force
   /\ elast.remaining = 0)
  => elast.result.value = RotateCompleted

\* a purge over an iterable store that returned has invalidated the entries
\* whose expiresAt was its now
PurgeAtExpiryPurges ==
  (PurgeReturned /\ allIterable)
  => \A id \in EscrowIds :
       (escrowStore[id] # NoEntry /\ escrowStore[id].expiresAt = elast.at)
       => Invalidated(escrowStore[id])

\* C16: an entry whose expiresAt equals now is treated as expired by every
\* escrow operation: getEscrowEntry fails with 'expired', rotateEscrowEntry
\* without force does not defer, purgeExpiredEscrow purges it.
C16_ExpiredAtExactExpiry ==
  /\ ReadAtExpiryFails
  /\ RotateAtExpiryShreds
  /\ PurgeAtExpiryPurges


\* the escrow_create entries of the audit log
EscrowCreates == {i \in DOMAIN auditLog : auditLog[i].action = "escrow_create"}

\* the putEscrowEntry calls that have returned (one per escrow id)
PutsReturned == {id \in EscrowIds : ehist[id].created}

\* C17: whenever no putEscrowEntry is in flight, the audit log holds as many
\* escrow_create entries as putEscrowEntry calls have returned successfully,
\* also when key-value writes or audit appends fail.
C17_CreateAuditsMatchPuts ==
  EscrowQuiet => Cardinality(EscrowCreates) = Cardinality(PutsReturned)

\* no put in flight; one put has returned and another has thrown after
\* writing its entry
C17_Witness ==
  /\ EscrowQuiet
  /\ PutsReturned # {}
  /\ \E id \in EscrowIds : escrowStore[id] # NoEntry /\ ~ehist[id].created


(***************************************************************************)
(* aggregateProofs (verifier/aggregate.ts): every entry is verified by its *)
(* own async callback, the callbacks settle in any order, and the call     *)
(* goes on when Promise.allSettled has seen them all.                      *)
(***************************************************************************)
\* an AggregateProofEntry: a proof that verifies under the service's
\* verification key, one that does not, one that makes snarkjs throw
ProofEntries == {"valid", "invalid", "malformed"}

VKeys == {"vkey", "other"}

RECURSIVE ListsUpTo(_, _)
ListsUpTo(S, n) ==
  IF n = 0 THEN {<<>>}
  ELSE LET shorter == ListsUpTo(S, n - 1) IN
       shorter \cup {Append(l, x) : l \in {m \in shorter : Len(m) = n - 1}, x \in S}

ProofLists == ListsUpTo(ProofEntries, MaxProofs)

\* verifyProofWithKey: snarkjs.groth16.verify resolves true or false, or
\* rejects
verifyProofWithKey(entry, vkey) ==
  IF entry = "malformed" THEN "throws"
  ELSE IF entry = "valid" /\ vkey = "vkey" THEN "true"
  ELSE "false"

Pending == [status |-> "pending"]
Fulfilled(value) == [status |-> "fulfilled", value |-> value]

\* the callback of proofs.map (lines 52-66); index counts from 0
verifyEntry(entry, index, vkey) ==
  LET outcome == verifyProofWithKey(entry, vkey) IN
  IF outcome = "throws"
  THEN Fulfilled([index |-> index, valid |-> FALSE, error |-> "message"])
  ELSE Fulfilled([index |-> index, valid |-> outcome = "true"])

\* a call that does not wait for its verifications
NoneAwaited(settled) == TRUE

\* await Promise.allSettled (line 51): every callback has settled
AllSettled(settled) == \A i \in DOMAIN settled : settled[i] # Pending

\* an entry that takes the branch of a rejected callback whatever happened
entryOfRejected(r) ==
  [index |-> 0, valid |-> FALSE, error |-> "Verification threw unexpectedly"]

\* results.map (lines 70-74)
entryOf(r) ==
  IF r.status = "fulfilled" THEN r.value
  ELSE [index |-> 0, valid |-> FALSE, error |-> "Verification threw unexpectedly"]

\* entries.filter((e) => e.valid).length (line 76)
validCountOf(entries) == Cardinality({i \in DOMAIN entries : entries[i].valid})

\* an allValid that one valid proof is enough for
allValidAny(validCount, total) == validCount > 0

\* allValid: validCount === proofs.length (line 79)
allValidOf(validCount, total) == validCount = total

\* the AggregateResult built from the settled callbacks (lines 70-83)
aggregateResult(proofs, settled) ==
  LET entries == [i \in DOMAIN settled |-> entryOf(settled[i])] IN
  [allValid |-> allValidOf(validCountOf(entries), Len(proofs)),
   total |-> Len(proofs),
   validCount |-> validCountOf(entries),
   results |-> entries]

EmptyResult == [allValid |-> TRUE, total |-> 0, validCount |-> 0, results |-> <<>>]

AggFrame == UNCHANGED <<cacheVars, storeVars, verifyVars, issueVars, escrowVars, lateVars>>

\* aggregateProofs(proofs, vkey) is called: the empty list returns at once,
\* otherwise every callback starts and awaits its verification (lines 43-59)
AggCall(proofs, vkey) ==
  /\ acall.pc = "idle"
  /\ IF Len(proofs) = 0
     THEN acall' = [NoCall EXCEPT !.pc = "done", !.vkey = vkey,
                                  !.result = Returned(EmptyResult)]
     ELSE acall' = [NoCall EXCEPT !.pc = "verifying", !.proofs = proofs, !.vkey = vkey,
                                  !.settled = [i \in 1..Len(proofs) |-> Pending]]
  /\ AggFrame

\* the verification of one entry settles and its callback returns
\* (lines 53-66)
AggSettle(i) ==
  /\ acall.pc = "verifying"
  /\ i \in DOMAIN acall.settled
  /\ acall.settled[i] = Pending
  /\ acall' = [acall EXCEPT !.settled[i] = verifyEntry(acall.proofs[i], i - 1, acall.vkey)]
  /\ AggFrame

\* Promise.allSettled resolves and the result is built (lines 51, 70-84)
AggReturn ==
  /\ acall.pc = "verifying"
  /\ AllSettled(acall.settled)
  /\ acall' = [acall EXCEPT !.pc = "done",
                            !.result = Returned(aggregateResult(acall.proofs, acall.settled))]
  /\ AggFrame

NextAggregate ==
  \/ \E proofs \in ProofLists, vkey \in VKeys : AggCall(proofs, vkey)
  \/ \E i \in 1..MaxProofs : AggSettle(i)
  \/ AggReturn

InitAggregate ==
  /\ InitCache /\ InitStores /\ IdleVerify /\ vkeyExists = TRUE
  /\ IdleIssue /\ NoKeysLoaded /\ IdleEscrow /\ IdleAggregate /\ IdleLate

SpecAggregate == InitAggregate /\ [][NextAggregate]_vars

(***************************************************************************)
(* Claims about aggregateProofs.                                           *)
(***************************************************************************)
AggDone == acall.pc = "done" /\ acall.result.kind = "return"

\* C18: for any list of entries, empty or with entries whose verification
\* throws, allValid holds exactly when validCount = total, and total is the
\* number of entries submitted.
C18_AllValidIffAllCounted ==
  acall.pc = "done" =>
    /\ acall.result.kind = "return"
    /\ acall.result.value.allValid <=>
         (acall.result.value.validCount = acall.result.value.total)
    /\ acall.result.value.total = Len(acall.proofs)

\* a call with a valid entry and a throwing one has returned allValid false
C18_Witness ==
  /\ AggDone
  /\ \E i, j \in DOMAIN acall.proofs :
       acall.proofs[i] = "malformed" /\ acall.proofs[j] = "valid"
  /\ acall.vkey = "vkey"
  /\ ~acall.result.value.allValid
  /\ acall.result.value.validCount > 0


\* the index fields of the results of the call
ResultIndexes ==
  {acall.result.value.results[i].index : i \in DOMAIN acall.result.value.results}

\* C19: the index fields of the results are a permutation of 0..total-1:
\* there are total results and every index from 0 to total-1 occurs among
\* them, also when verifications throw.
C19_IndexesArePermutation ==
  AggDone =>
    /\ Len(acall.result.value.results) = acall.result.value.total
    /\ ResultIndexes = 0..(acall.result.value.total - 1)

\* a call of several entries, the last of which threw, has returned
C19_Witness ==
  /\ AggDone
  /\ Len(acall.proofs) > 1
  /\ acall.proofs[Len(acall.proofs)] = "malformed"
  /\ acall.result.value.results[Len(acall.proofs)].index = Len(acall.proofs) - 1

\* C20: the verifications are isolated: the valid field of result i is the
\* outcome of verifying entry i under the vkey, whatever the other entries
\* are and whether or not their verifications throw or return false; the
\* call never fails, and it returns only once every verification has
\* settled.
C20_VerificationsIsolated ==
  /\ acall.pc = "done" =>
       /\ acall.result.kind = "return"
       /\ AllSettled(acall.settled)
       /\ \A i \in DOMAIN acall.proofs :
            acall.result.value.results[i].valid
              = (verifyProofWithKey(acall.proofs[i], acall.vkey) = "true")
  /\ acall.pc = "verifying" =>
       \A i \in DOMAIN acall.settled :
         acall.settled[i] # Pending =>
           acall.settled[i].value.valid
             = (verifyProofWithKey(acall.proofs[i], acall.vkey) = "true")

\* a call has returned in which a valid entry stands between a throwing
\* and an invalid one and is reported valid
C20_Witness ==
  /\ AggDone
  /\ \E i, j, k \in DOMAIN acall.proofs :
       /\ acall.proofs[i] = "malformed"
       /\ acall.proofs[j] = "invalid"
       /\ acall.proofs[k] = "valid"
       /\ acall.result.value.results[k].valid
       /\ ~acall.result.value.results[i].valid


(***************************************************************************)
(* Verification records (verify route): POST /api/v1/verify creates a      *)
(* record, GET /api/v1/verify/:id reads it.  The record of id i is the one *)
(* the client of credential request i created before posting its KYC data. *)
(***************************************************************************)
RecordIds == IssueReqs

\* the VerificationStatus values that follow the issuance of a credential
IssuedStatuses == {"credential_issued", "proof_generating", "proof_ready", "verified"}

RecordFrame == UNCHANGED <<cacheVars, storeVars, verifyVars, issueVars, escrowVars, acall, treeVars, shutVars, expiry, apiVars, ageCase, rt, trailVars, verifiedAt, gateVars>>

\* POST /api/v1/verify: a record with a fresh randomUUID, status 'pending'
\* (verify route, lines 80-101)
PostVerify(id) ==
  /\ verifications[id] = NoEntry
  /\ verifications' = [verifications EXCEPT ![id] = [id |-> id, status |-> "pending"]]
  /\ UNCHANGED vget
  /\ RecordFrame

\* GET /api/v1/verify/:id: 404, or the record's status; issued records
\* whether POST /api/v1/credential had answered 201 to the record's client
\* (verify route, lines 107-121)
GetVerify(id) ==
  /\ vget' = IF verifications[id] = NoEntry
             THEN [status |-> 404]
             ELSE [status |-> 200, id |-> id, record |-> verifications[id].status,
                   issued |-> iresp[id].status = 201]
  /\ UNCHANGED verifications
  /\ RecordFrame

NextRecord ==
  \/ \E id \in RecordIds : PostVerify(id)
  \/ \E id \in RecordIds : GetVerify(id)
  \/ NextIssue

SpecRecord == InitIssue /\ [][NextRecord]_vars

\* C21: a verification record starts 'pending', and once a credential has
\* been issued to its client through POST /api/v1/credential, GET
\* /api/v1/verify/:id shows it at credential_issued (or further along the
\* lifecycle).
C21_IssuedRecordObserved ==
  (vget.status = 200 /\ vget.issued) => vget.record \in IssuedStatuses


(***************************************************************************)
(* The sanctions Merkle tree (kyc/types.ts, kyc/merkle.ts).  A tree object *)
(* is its `layers` array; the object a caller builds is kept in that       *)
(* caller's record, and `sanctionsTree` holds the builder's number.        *)
(***************************************************************************)
TreeDepth == 3

\* SANCTIONED_COUNTRY_CODES in list order
SanctionedList == <<408, 364, 760, 192, 728>>

\* the constructor: the leaves padded with zeros up to 2^depth
PaddedLeaves ==
  [k \in 1..(2 ^ TreeDepth) |-> IF k <= Len(SanctionedList) THEN SanctionedList[k] ELSE 0]

\* poseidonHash of a pair, on a small field
poseidonHash2(left, right) == (31 * left + 17 * right + 7) % 1009

\* the getter `root`: element 0 of the last layer pushed so far
rootOf(layers) ==
  LET topLayer == layers[Len(layers)]
  IN  IF Len(topLayer) = 0 THEN [kind |-> "Error"] ELSE [kind |-> "root", value |-> topLayer[1]]

\* generateProof(index): reads layers[level][sibling] for every level below
\* depth; a level not pushed yet is undefined and the read throws
generateProof(layers, index) ==
  IF Len(layers) < TreeDepth
  THEN [kind |-> "TypeError"]
  ELSE LET at(level) == index \div (2 ^ level)
           sibling(level) == IF at(level) % 2 = 1 THEN at(level) - 1 ELSE at(level) + 1
       IN  [kind |-> "proof",
            leaf |-> layers[1][index + 1],
            index |-> index,
            pathElements |-> [l \in 1..TreeDepth |-> layers[l][sibling(l - 1) + 1]],
            pathIndices |-> [l \in 1..TreeDepth |-> at(l - 1) % 2],
            root |-> rootOf(layers)]

\* indexOf(leaf) # -1, on the leaves the constructor stored
treeHasLeaf(layers, leaf) == \E k \in 1..Len(layers[1]) : layers[1][k] = leaf

\* a whole pass of build(): every level hashed and pushed
RECURSIVE BuildFrom(_, _)
BuildFrom(layers, levels) ==
  IF levels = 0 THEN layers
  ELSE LET cur == layers[Len(layers)]
           nextLayer == [k \in 1..(Len(cur) \div 2) |-> poseidonHash2(cur[2 * k - 1], cur[2 * k])]
       IN  BuildFrom(Append(layers, nextLayer), levels - 1)

BuiltLayers == BuildFrom(<<PaddedLeaves>>, TreeDepth)

TreeFrame == UNCHANGED <<cacheVars, storeVars, verifyVars, issueVars, escrowVars, acall, recordVars, shutVars, expiry, apiVars, ageCase, rt, trailVars, verifiedAt, gateVars>>

\* the layers of the object `sanctionsTree` points to
TreeLayers(ref) == stask[ref].layers

\* new PoseidonMerkleTree(TREE_DEPTH, leaves) assigned to the singleton, and
\* build() entered up to its first await
TreeCreate(t, op, index) ==
  /\ sanctionsTree' = t
  /\ stask' = [stask EXCEPT ![t] = [NoCaller EXCEPT !.op = op, !.pc = "build", !.index = index,
                                                  !.layers = <<PaddedLeaves>>]]

\* getSanctionsTree() or isCountrySanctioned(): the singleton if set, else a
\* new tree
SanctionsGet(t, op, index) ==
  /\ stask[t].pc = "idle"
  /\ IF sanctionsTree # 0
     THEN /\ stask' = [stask EXCEPT ![t] = [NoCaller EXCEPT !.op = op, !.pc = "got", !.index = index,
                                                         !.tree = sanctionsTree]]
          /\ UNCHANGED sanctionsTree
     ELSE TreeCreate(t, op, index)
  /\ TreeFrame

\* refreshSanctionsTree(): the singleton nulled, then getSanctionsTree()
SanctionsRefresh(t) ==
  /\ stask[t].pc = "idle"
  /\ TreeCreate(t, "refresh", 0)
  /\ TreeFrame

\* build(): one awaited poseidonHash resolves; a finished level is pushed
SanctionsHash(t) ==
  /\ stask[t].pc = "build"
  /\ LET layers == stask[t].layers
         cur == layers[Len(layers)]
         k == Len(stask[t].nextLayer) + 1
         grown == Append(stask[t].nextLayer, poseidonHash2(cur[2 * k - 1], cur[2 * k]))
     IN  IF 2 * k < Len(cur)
         THEN stask' = [stask EXCEPT ![t].nextLayer = grown]
         ELSE stask' = [stask EXCEPT ![t].nextLayer = <<>>,
                                     ![t].layers = Append(layers, grown),
                                     ![t].pc = IF Len(layers) = TreeDepth THEN "built" ELSE "build"]
  /\ UNCHANGED sanctionsTree
  /\ TreeFrame

\* after build(): `return sanctionsTree` reads the singleton again
SanctionsBuilt(t) ==
  /\ stask[t].pc = "built"
  /\ stask' = [stask EXCEPT ![t].pc = IF stask[t].op = "refresh" THEN "done" ELSE "got",
                            ![t].tree = sanctionsTree]
  /\ UNCHANGED sanctionsTree
  /\ TreeFrame

\* the caller uses the tree it was given: root and generateProof, or indexOf
SanctionsUse(t) ==
  /\ stask[t].pc = "got"
  /\ LET layers == TreeLayers(stask[t].tree)
     IN  stask' = [stask EXCEPT ![t].pc = "done",
                     ![t].seen = IF stask[t].op = "check"
                                 THEN [kind |-> "sanctioned",
                                       value |-> treeHasLeaf(layers, SanctionedList[stask[t].index + 1])]
                                 ELSE [kind |-> "tree", root |-> rootOf(layers),
                                       proof |-> generateProof(layers, stask[t].index)]]
  /\ UNCHANGED sanctionsTree
  /\ TreeFrame

NextTree ==
  \/ \E t \in SanctionCallers, index \in 0..1 : SanctionsGet(t, "get", index)
  \/ \E t \in SanctionCallers, index \in 0..1 : SanctionsGet(t, "check", index)
  \/ \E t \in SanctionCallers : SanctionsRefresh(t)
  \/ \E t \in SanctionCallers : SanctionsHash(t)
  \/ \E t \in SanctionCallers : SanctionsBuilt(t)
  \/ \E t \in SanctionCallers : SanctionsUse(t)

SpecTree == InitIssue /\ [][NextTree]_vars

\* C22: a caller of getSanctionsTree sees only a fully built tree: the root
\* and the proof it reads equal those of a completed build, and a sanctions
\* check on a listed code answers true.
C22_CallersSeeBuiltTree ==
  \A t \in SanctionCallers :
    /\ stask[t].seen.kind = "tree" =>
         /\ stask[t].seen.root = rootOf(BuiltLayers)
         /\ stask[t].seen.proof = generateProof(BuiltLayers, stask[t].index)
    /\ stask[t].seen.kind = "sanctioned" => stask[t].seen.value


ShutFrame ==
  UNCHANGED <<cacheVars, storeVars, verifyVars, issueVars, escrowVars, acall, recordVars, treeVars, expiry, apiVars, ageCase, rt, trailVars, verifiedAt, gateVars>>

SignalReceived == \E s \in Signals : sigpc[s] # "idle"

\* a request arrives while the server still accepts connections: getStores()
\* returns the open stores and the key-value put starts
WriteBegin(h) ==
  /\ ~exited /\ ~SignalReceived
  /\ hreq[h].pc = "idle"
  /\ hreq' = [hreq EXCEPT ![h].pc = "put"]
  /\ UNCHANGED <<storesInstance, closeCalls, exited, sigpc>>
  /\ ShutFrame

\* the put settles; appendAuditLog calls getStores(), which throws when
\* storesInstance is null, and else starts log.add
WritePut(h, ok) ==
  /\ ~exited
  /\ hreq[h].pc = "put"
  /\ hreq' = [hreq EXCEPT ![h] =
                IF ~ok THEN [pc |-> "failed", saw |-> "store error"]
                ELSE IF ~storesInstance THEN [pc |-> "failed", saw |-> "Stores not opened"]
                ELSE [pc |-> "audit", saw |-> "none"]]
  /\ UNCHANGED <<storesInstance, closeCalls, exited, sigpc>>
  /\ ShutFrame

\* log.add settles and the write is complete
WriteAudit(h, ok) ==
  /\ ~exited
  /\ hreq[h].pc = "audit"
  /\ hreq' = [hreq EXCEPT ![h] = IF ok THEN [pc |-> "done", saw |-> "none"]
                                 ELSE [pc |-> "failed", saw |-> "store error"]]
  /\ UNCHANGED <<storesInstance, closeCalls, exited, sigpc>>
  /\ ShutFrame

\* SIGINT or SIGTERM: shutdown() calls server.close() and enters
\* closeStores(), which returns at once when storesInstance is null and else
\* calls close() on every store and awaits them
Shutdown(s) ==
  /\ ~exited
  /\ sigpc[s] = "idle"
  /\ IF storesInstance
     THEN /\ closeCalls' = closeCalls + 1
          /\ sigpc' = [sigpc EXCEPT ![s] = "closing"]
     ELSE /\ sigpc' = [sigpc EXCEPT ![s] = "orbit"]
          /\ UNCHANGED closeCalls
  /\ UNCHANGED <<storesInstance, exited, hreq>>
  /\ ShutFrame

\* the close() promises resolve: storesInstance = null
StoresClosed(s) ==
  /\ ~exited
  /\ sigpc[s] = "closing"
  /\ storesInstance' = FALSE
  /\ sigpc' = [sigpc EXCEPT ![s] = "orbit"]
  /\ UNCHANGED <<closeCalls, exited, hreq>>
  /\ ShutFrame

\* shutdownOrbitDB resolves and process.exit(0) ends the process
ProcessExit(s) ==
  /\ ~exited
  /\ sigpc[s] = "orbit"
  /\ exited' = TRUE
  /\ sigpc' = [sigpc EXCEPT ![s] = "exited"]
  /\ UNCHANGED <<storesInstance, closeCalls, hreq>>
  /\ ShutFrame

NextShutdown ==
  \/ \E h \in Writers : WriteBegin(h)
  \/ \E h \in Writers, ok \in BOOLEAN : WritePut(h, ok)
  \/ \E h \in Writers, ok \in BOOLEAN : WriteAudit(h, ok)
  \/ \E s \in Signals : Shutdown(s)
  \/ \E s \in Signals : StoresClosed(s)
  \/ \E s \in Signals : ProcessExit(s)

SpecShutdown == InitIssue /\ [][NextShutdown]_vars

\* C24: on SIGINT/SIGTERM every store write a handler has started completes
\* before the stores are closed and the process exits, no handler that began
\* its write before the signal observes 'Stores not opened', and a second
\* signal does not close the stores a second time.
C24_WritesDrainBeforeExit ==
  /\ \A h \in Writers :
       /\ (exited \/ ~storesInstance) => hreq[h].pc \notin {"put", "audit"}
       /\ hreq[h].saw # "Stores not opened"
  /\ closeCalls <= 1

\* the three parts of C24, one at a time
ExitWithWriteInFlight == exited /\ \E h \in Writers : hreq[h].pc \in {"put", "audit"}
WriterSawClosedStores == \E h \in Writers : hreq[h].saw = "Stores not opened"
StoresClosedTwice == closeCalls > 1


(***************************************************************************)
(* Expiry dates (issuer/credential.ts 50 and 102-117, db/stores.ts         *)
(* 250-304).  Time is counted in hours, so that 365 days and 365.25 days   *)
(* are both whole numbers.                                                 *)
(***************************************************************************)
MaxStartHours == 5
MaxDelayHours == 4

HoursPerDay == 24

\* CREDENTIAL_TTL_MS = 365 * 24 * 60 * 60 * 1000, in hours
CREDENTIAL_TTL_MS == 365 * HoursPerDay

\* RETENTION_POLICIES: five years for US, EU, UK and DEFAULT
Jurisdictions == {"US", "EU", "UK", "SG"}
RETENTION_POLICIES(jurisdiction) == 5

\* years * 365.25 * 24 * 60 * 60 * 1000, in hours: 365.25 days are 8766 hours
getRetentionHours(jurisdiction) ==
  RETENTION_POLICIES(jurisdiction) * ((1461 * HoursPerDay) \div 4)

ExpiryFrame ==
  UNCHANGED <<cacheVars, storeVars, verifyVars, issueVars, escrowVars, acall, recordVars, treeVars, shutVars, apiVars, ageCase, rt, trailVars, verifiedAt, gateVars>>

\* issueCredential returns: issuedAt = Date.now(), expiresAt = issuedAt + TTL
ExpiryIssue(jurisdiction) ==
  /\ expiry.pc = "start"
  /\ expiry' = [expiry EXCEPT !.pc = "issued", !.jurisdiction = jurisdiction,
                              !.issuedAt = expiry.now,
                              !.credentialExpiresAt = expiry.now + CREDENTIAL_TTL_MS]
  /\ ExpiryFrame

\* time passes between the credential's Date.now() and the escrow entry's
ExpiryTick ==
  /\ expiry.pc = "issued"
  /\ expiry.now - expiry.issuedAt < MaxDelayHours
  /\ expiry' = [expiry EXCEPT !.now = expiry.now + 1]
  /\ ExpiryFrame

\* putEscrowEntry builds the entry: createdAt = Date.now(),
\* expiresAt = Date.now() + getRetentionMs(jurisdiction)
ExpiryEscrow ==
  /\ expiry.pc = "issued"
  /\ expiry' = [expiry EXCEPT !.pc = "stored", !.createdAt = expiry.now,
                              !.escrowExpiresAt = expiry.now + getRetentionHours(expiry.jurisdiction)]
  /\ ExpiryFrame

NextExpiry ==
  \/ \E jurisdiction \in Jurisdictions : ExpiryIssue(jurisdiction)
  \/ ExpiryTick
  \/ ExpiryEscrow

\* an issuance starts at any hour
InitExpiry ==
  /\ InitCache /\ InitStores /\ IdleVerify /\ vkeyExists = TRUE
  /\ IdleIssue /\ IdleEscrow /\ IdleAggregate /\ NoKeysLoaded
  /\ IdleRecords /\ IdleTree /\ IdleShutdown /\ IdleApi /\ ageCase = NoAgeCase /\ rt = NoRoundTrip
  /\ IdleTrail /\ IdleTtl /\ IdleGate
  /\ expiry \in {[NoExpiry EXCEPT !.pc = "start", !.now = t] : t \in 0..MaxStartHours}

SpecExpiry == InitExpiry /\ [][NextExpiry]_vars

\* C25: the escrow entry of an issued credential outlives the credential by
\* at least the retention window of its jurisdiction.
C25_EscrowOutlivesByRetention ==
  expiry.pc = "stored" =>
    expiry.escrowExpiresAt - expiry.credentialExpiresAt >= getRetentionHours(expiry.jurisdiction)

\* what the code does give: the entry outlives the credential by the
\* retention window less the credential's TTL, plus the delay between them
EscrowOutlivesByRetentionLessTtl ==
  expiry.pc = "stored" =>
    expiry.escrowExpiresAt - expiry.credentialExpiresAt
      = getRetentionHours(expiry.jurisdiction) - CREDENTIAL_TTL_MS + (expiry.createdAt - expiry.issuedAt)


(***************************************************************************)
(* Claims about a missing verification key.                                *)
(***************************************************************************)
\* no nullifier registered and nothing in either cache layer
NothingWritten ==
  /\ \A n \in Nullifiers : nullifierStore[n] = NoEntry /\ nullifierPuts[n] = 0
  /\ memoryCache = <<>>
  /\ \A k \in Keys : proofCacheStore[k] = NoEntry
  /\ auditLog = <<>>

\* C26: a POST /api/v1/proof/verify that misses the cache while the
\* verification key file is missing is answered 503, registers no nullifier
\* and writes nothing to either cache layer.
C26_MissingVkeyGives503 ==
  ~vkeyExists =>
    /\ \A r \in VerifyReqs : vpc[r] = "done" => vresp[r].status = 503
    /\ NothingWritten

\* the part of C26 the code keeps: no write at all while the key is missing
MissingVkeyWritesNothing == ~vkeyExists => NothingWritten

\* the answer the code gives
MissingVkeyGives500 ==
  ~vkeyExists => \A r \in VerifyReqs : vpc[r] = "done" => vresp[r] = Resp500


(***************************************************************************)
(* The middleware chain of a protected route (api/server.ts 120-124,       *)
(* api/middleware.ts): apiKeyAuth, rateLimit, then the route's             *)
(* validateBody and handler.  An Authorization header is the pair of its   *)
(* first seven characters and the rest.                                    *)
(***************************************************************************)
RateLimitPoints == 2

AuthorizationHeaders ==
  {NoHeader} \cup {<<scheme, key>> : scheme \in {"Bearer ", "bearer ", "Basic  "}, key \in ApiKeysSent}
VersionHeaders == {NoHeader, <<"1">>, <<"2">>}

ApiFrame ==
  UNCHANGED <<cacheVars, storeVars, verifyVars, issueVars, escrowVars, acall, recordVars, treeVars, shutVars, expiry, ageCase, rt, trailVars, verifiedAt, gateVars>>

\* authHeader?.startsWith('Bearer ')
startsWithBearer(authHeader) == authHeader # NoHeader /\ authHeader[1] = "Bearer "

\* authHeader.slice(7)
slice7(authHeader) == authHeader[2]

\* apiKeyAuth: 401, 403, or next() with req.apiKey set
apiKeyAuth(authHeader) ==
  IF ~startsWithBearer(authHeader) THEN 401
  ELSE IF slice7(authHeader) \notin API_KEYS THEN 403
  ELSE 0

\* a request arrives: apiKeyAuth answers it or calls next(), and rateLimit
\* calls rateLimiter.consume(key), which counts the request at once
ApiArrive(q, authorization, version, bodyValid) ==
  LET refused == apiKeyAuth(authorization)
      key == slice7(authorization)
  IN
  /\ areq[q].pc = "idle"
  /\ IF refused # 0
     THEN /\ areq' = [areq EXCEPT ![q] = [pc |-> "done", authorization |-> authorization,
                                          version |-> version, bodyValid |-> bodyValid,
                                          ran |-> <<"apiKeyAuth">>, status |-> refused]]
          /\ UNCHANGED ratePoints
     ELSE /\ areq' = [areq EXCEPT ![q] = [pc |-> "rateLimit", authorization |-> authorization,
                                          version |-> version, bodyValid |-> bodyValid,
                                          ran |-> <<"apiKeyAuth", "rateLimit">>,
                                          status |-> IF ratePoints[key] >= RateLimitPoints THEN 429 ELSE 0]]
          /\ ratePoints' = [ratePoints EXCEPT ![key] = IF @ > RateLimitPoints THEN @ ELSE @ + 1]
  /\ ApiFrame

\* consume settles: 429, or next() into the route, whose validateBody
\* answers 400 or passes the request to the route handler
ApiRateLimit(q) ==
  /\ areq[q].pc = "rateLimit"
  /\ areq' = [areq EXCEPT ![q] =
                IF areq[q].status = 429 THEN [@ EXCEPT !.pc = "done"]
                ELSE IF ~areq[q].bodyValid
                THEN [@ EXCEPT !.pc = "done", !.status = 400, !.ran = Append(@, "validateBody")]
                ELSE [@ EXCEPT !.pc = "handler", !.ran = @ \o <<"validateBody", "handler">>]]
  /\ UNCHANGED ratePoints
  /\ ApiFrame

\* the rate limiter's window ends
ApiWindow ==
  /\ \E k \in ApiKeysSent : ratePoints[k] > 0
  /\ ratePoints' = [k \in ApiKeysSent |-> 0]
  /\ UNCHANGED areq
  /\ ApiFrame

NextApi ==
  \/ \E q \in ApiReqs, authorization \in AuthorizationHeaders, version \in VersionHeaders,
        bodyValid \in BOOLEAN : ApiArrive(q, authorization, version, bodyValid)
  \/ \E q \in ApiReqs : ApiRateLimit(q)
  \/ ApiWindow

SpecApi == InitIssue /\ [][NextApi]_vars

ReachedHandler(q) == areq[q].pc = "handler"

\* the part of C27 about the Authorization header
AuthorizedOnly ==
  \A q \in ApiReqs :
    /\ ReachedHandler(q) =>
         startsWithBearer(areq[q].authorization) /\ slice7(areq[q].authorization) \in API_KEYS
    /\ (areq[q].pc # "idle" /\ ~startsWithBearer(areq[q].authorization)) =>
         areq[q].status = 401 /\ areq[q].ran = <<"apiKeyAuth">>
    /\ (startsWithBearer(areq[q].authorization) /\ slice7(areq[q].authorization) \notin API_KEYS) =>
         areq[q].status = 403 /\ areq[q].ran = <<"apiKeyAuth">>

\* C27: a request reaches a route handler of /api/v1 only with a Bearer key
\* of the allow-list and the header X-ZeroID-Version: 1; a missing or
\* malformed Authorization header is answered 401 and an unknown key 403,
\* before rate limiting and body validation run.
C27_HandlerNeedsKeyAndVersion ==
  /\ AuthorizedOnly
  /\ \A q \in ApiReqs : ReachedHandler(q) => areq[q].version = <<"1">>


(***************************************************************************)
(* The age hashed into a credential (issuer/credential.ts 82-92, the       *)
(* request schema of api/middleware.ts 111-121).  A date of birth is the   *)
(* three numbers the pattern ^\d{4}-\d{2}-\d{2}$ lets through; the local   *)
(* time zone is UTC.                                                       *)
(***************************************************************************)
DobYears == {1, 1770, 1771, 1990, 2026, 2027, 9999}
DobMonths == {0, 2, 11, 13}
DobDays == {0, 1, 15, 28, 32}
Todays == {[year |-> 2026, month |-> 11, day |-> 5], [year |-> 2026, month |-> 2, day |-> 15]}

\* the digits the schema's pattern accepts: four, two and two
credentialRequestSchemaAccepts(d) ==
  d.year \in 0..9999 /\ d.month \in 0..99 /\ d.day \in 0..99

\* new Date('YYYY-MM-DD'): an Invalid Date unless the month is 1..12 and the
\* day 1..31 (no day above 28 is drawn, so no date rolls into the next month)
newDate(d) ==
  IF d.month \in 1..12 /\ d.day \in 1..31 THEN d ELSE InvalidDate

\* the age arithmetic of lines 85-90; every getter of an Invalid Date is NaN
ageOf(dob, today) ==
  IF dob = InvalidDate THEN NaN
  ELSE LET years == today.year - dob.year
           monthDiff == today.month - dob.month
       IN  IF monthDiff < 0 \/ (monthDiff = 0 /\ today.day < dob.day)
           THEN Number(years - 1) ELSE Number(years)

AgeFrame ==
  UNCHANGED <<cacheVars, storeVars, verifyVars, issueVars, escrowVars, acall, recordVars, treeVars, shutVars, expiry, apiVars, rt, trailVars, verifiedAt, gateVars>>

\* const dob = new Date(kycResult.dateOfBirth); const now = new Date()
AgeParse ==
  /\ ageCase.pc = "start"
  /\ ageCase' = [ageCase EXCEPT !.pc = "parsed", !.dob = newDate(ageCase.dateOfBirth)]
  /\ AgeFrame

\* lines 85-90
AgeCompute ==
  /\ ageCase.pc = "parsed"
  /\ ageCase' = [ageCase EXCEPT !.pc = "computed", !.age = ageOf(ageCase.dob, ageCase.today)]
  /\ AgeFrame

\* hashCredential: BigInt(age) throws a RangeError on NaN; poseidon.F.e takes
\* any bigint, and whether it takes a negative one is left open; no other
\* test of the age stands between it and the returned credential
AgeHash(acceptsNegative) ==
  /\ ageCase.pc = "computed"
  /\ ageCase' = [ageCase EXCEPT !.pc = "done",
                   !.outcome = IF ageCase.age.nan THEN "RangeError"
                               ELSE IF ageCase.age.value < 0 /\ ~acceptsNegative THEN "Error"
                               ELSE "credential"]
  /\ AgeFrame

NextAge ==
  \/ AgeParse
  \/ AgeCompute
  \/ \E acceptsNegative \in BOOLEAN : AgeHash(acceptsNegative)

\* issueCredential is called with a date of birth the schema accepts
InitAge ==
  /\ InitCache /\ InitStores /\ IdleVerify /\ vkeyExists = TRUE
  /\ IdleIssue /\ IdleEscrow /\ IdleAggregate /\ NoKeysLoaded
  /\ IdleRecords /\ IdleTree /\ IdleShutdown /\ expiry = NoExpiry /\ IdleApi /\ rt = NoRoundTrip
  /\ IdleTrail /\ IdleTtl /\ IdleGate
  /\ ageCase \in {[NoAgeCase EXCEPT !.pc = "start", !.today = t,
                                   !.dateOfBirth = [year |-> y, month |-> m, day |-> d]] :
                    t \in Todays, y \in DobYears, m \in DobMonths, d \in DobDays}
  /\ credentialRequestSchemaAccepts(ageCase.dateOfBirth)

SpecAge == InitAge /\ [][NextAge]_vars

Issued == ageCase.pc = "done" /\ ageCase.outcome = "credential"

\* C28: the age hashed into an issued credential is an integer in 0..255,
\* and a date of birth that gives an age outside that range never produces
\* a credential.
C28_HashedAgeFitsEightBits ==
  Issued => ~ageCase.age.nan /\ ageCase.age.value \in 0..255

\* the part of C28 the code keeps: an unparsable date produces no credential
UnparsableDateIssuesNothing ==
  (ageCase.pc = "done" /\ ageCase.dob = InvalidDate) => ageCase.outcome = "RangeError"

\* a credential issued for an age above 255, and one for a date in the future
IssuedAbove255 == Issued /\ ageCase.age.value > 255
IssuedNegative == Issued /\ ageCase.age.value < 0


(***************************************************************************)
(* The escrow round trip (db/stores.ts 279-359, crypto/aes.ts).  A PII     *)
(* record holds strings, numbers and properties that are undefined; its    *)
(* JSON text is the sequence of its members, a string as a quoted token    *)
(* and a number as its decimal digits.                                     *)
(***************************************************************************)
Undefined == [t |-> "undefined"]
Str(s) == [t |-> "string", v |-> s]
Num(n) == [t |-> "number", v |-> n]

PiiFieldOrder == <<"fullName", "countryCode", "kycProviderRef">>
PiiFields == {PiiFieldOrder[i] : i \in 1..Len(PiiFieldOrder)}

PiiRecords ==
  {[fullName |-> Str(n), countryCode |-> Num(c), kycProviderRef |-> r] :
     n \in {"ALICE", "BOB"}, c \in {8, 840}, r \in {Undefined, Str("ref-1")}}

RECURSIVE digitsOf(_)
digitsOf(n) == IF n < 10 THEN <<n>> ELSE Append(digitsOf(n \div 10), n % 10)

RECURSIVE numberOf(_)
numberOf(ds) ==
  IF Len(ds) = 1 THEN ds[1]
  ELSE 10 * numberOf(SubSeq(ds, 1, Len(ds) - 1)) + ds[Len(ds)]

tokenOf(value) ==
  IF value.t = "string" THEN [quoted |-> value.v] ELSE [digits |-> digitsOf(value.v)]

valueOf(token) ==
  IF "quoted" \in DOMAIN token THEN Str(token.quoted) ELSE Num(numberOf(token.digits))

RECURSIVE membersFrom(_, _, _)
membersFrom(p, i, skipped) ==
  IF i > Len(PiiFieldOrder) THEN <<>>
  ELSE LET f == PiiFieldOrder[i]
           member == IF p[f] = Undefined \/ f \in skipped THEN <<>>
                     ELSE <<[name |-> f, token |-> tokenOf(p[f])]>>
       IN  member \o membersFrom(p, i + 1, skipped)

\* a JSON.stringify that loses the numbers
JSONstringifyLossy(p) == [json |-> membersFrom(p, 1, {"countryCode"})]

\* JSON.stringify(rawPII): a property whose value is undefined is left out
JSONstringify(p) == [json |-> membersFrom(p, 1, {})]

\* JSON.parse(plaintext): a property the text lacks reads as undefined
JSONparse(text) ==
  LET members == text.json IN
  [f \in PiiFields |->
     IF \E i \in 1..Len(members) : members[i].name = f
     THEN valueOf(members[CHOOSE i \in 1..Len(members) : members[i].name = f].token)
     ELSE Undefined]

\* the entry putEscrowEntry builds from rawPII (lines 289-304)
putEscrowEntryOf(rawPII, regulatorKey, regulatorKeyId, credentialId, t) ==
  EscrowEntry(JSONstringify(rawPII), regulatorKey, regulatorKeyId, credentialId, t)

\* getEscrowEntry after its audit entry: decrypt, integrity check, JSON.parse
getEscrowParse(entry, regulatorKey) ==
  LET opened == getEscrowOpen(entry, regulatorKey) IN
  IF opened.kind = "return" THEN Returned(JSONparse(opened.value)) ELSE opened

RoundTripFrame ==
  UNCHANGED <<cacheVars, storeVars, verifyVars, issueVars, escrowVars, acall, recordVars, treeVars, shutVars, expiry, apiVars, ageCase, trailVars, verifiedAt, gateVars>>

\* putEscrowEntry up to the end of its key-value write
RoundTripPut(ok) ==
  /\ rt.pc = "start"
  /\ rt' = IF ok
           THEN [rt EXCEPT !.pc = "audit",
                           !.entry = putEscrowEntryOf(rt.p, rt.key, "default", 1, rt.now)]
           ELSE [rt EXCEPT !.pc = "failed"]
  /\ RoundTripFrame

\* the escrow_create audit entry: putEscrowEntry returns or throws
RoundTripPutAudit(ok) ==
  /\ rt.pc = "audit"
  /\ rt' = [rt EXCEPT !.pc = IF ok THEN "stored" ELSE "failed"]
  /\ RoundTripFrame

RoundTripTick ==
  /\ rt.pc = "stored"
  /\ rt.now <= getRetentionMs("US")
  /\ rt' = [rt EXCEPT !.now = rt.now + 1]
  /\ RoundTripFrame

\* rotateEscrowEntry: deferred, or the entry crypto-shredded
RoundTripRotate(forceErasure) ==
  /\ rt.pc = "stored"
  /\ ~rt.entry.invalidated
  /\ rt' = [rt EXCEPT !.entry = IF rotateDefers(rt.entry, rt.now, forceErasure)
                                THEN rt.entry ELSE shredded(rt.entry)]
  /\ RoundTripFrame

\* getEscrowEntry(id, regulatorKey, actor), its audit append succeeding or not
RoundTripGet(regulatorKey, ok) ==
  LET check == getEscrowCheck(rt.entry, rt.now) IN
  /\ rt.pc = "stored"
  /\ rt' = [rt EXCEPT !.read =
              [key |-> regulatorKey, at |-> rt.now, entry |-> rt.entry, auditOk |-> ok,
               result |-> IF check # "ok" THEN Thrown(check)
                          ELSE IF ~ok THEN Thrown("audit log")
                          ELSE getEscrowParse(rt.entry, regulatorKey)]]
  /\ RoundTripFrame

NextRoundTrip ==
  \/ \E ok \in BOOLEAN : RoundTripPut(ok)
  \/ \E ok \in BOOLEAN : RoundTripPutAudit(ok)
  \/ RoundTripTick
  \/ \E forceErasure \in BOOLEAN : RoundTripRotate(forceErasure)
  \/ \E regulatorKey \in ReaderKeys, ok \in BOOLEAN : RoundTripGet(regulatorKey, ok)

\* putEscrowEntry is called with any record and any regulator key
InitRoundTrip ==
  /\ InitCache /\ InitStores /\ IdleVerify /\ vkeyExists = TRUE
  /\ IdleIssue /\ IdleEscrow /\ IdleAggregate /\ NoKeysLoaded
  /\ IdleRecords /\ IdleTree /\ IdleShutdown /\ expiry = NoExpiry /\ IdleApi
  /\ ageCase = NoAgeCase /\ IdleTrail /\ IdleTtl /\ IdleGate
  /\ rt \in {[NoRoundTrip EXCEPT !.pc = "start", !.p = p, !.key = k] :
               p \in PiiRecords, k \in ReaderKeys}

SpecRoundTrip == InitRoundTrip /\ [][NextRoundTrip]_vars

\* the last read was made with the key of the put, on an entry neither
\* invalidated nor expired, and its audit entry was appended
ReadInClaim ==
  /\ rt.read.result.kind # "none"
  /\ rt.read.key = rt.key
  /\ ~rt.read.entry.invalidated
  /\ rt.read.at <= rt.read.entry.expiresAt
  /\ rt.read.auditOk

MaxTrail == 3

Val(origin, v) == [origin |-> origin, v |-> v]
Lit(v) == Val("literal", v)

PiiOrigins ==
  {"fullName", "dateOfBirth", "countryCode", "documentType", "documentNumber", "userSecret"}

AuditSubmissions ==
  {[fullName |-> Val("fullName", n), dateOfBirth |-> Val("dateOfBirth", "1990-02-01"),
    countryCode |-> Val("countryCode", "840"), documentType |-> Val("documentType", "passport"),
    documentNumber |-> Val("documentNumber", "X123"),
    boundAddress |-> b] : n \in {"ALICE", "BOB"},
                          b \in {Val("undefined", ""), Val("boundAddress", "0xA")}}

AuditLogEntry(action, resourceId, actor, metadata) ==
  [action |-> action, resourceId |-> resourceId, actor |-> actor, metadata |-> metadata]

\* an escrow_create entry that also records the holder's name
putEscrowEntryAuditLeaky(escrowId, rawPII, regulatorKeyId, credentialId, jurisdiction) ==
  AuditLogEntry("escrow_create", escrowId, Lit("system"),
                [regulatorKeyId |-> regulatorKeyId, jurisdiction |-> jurisdiction,
                 credentialId |-> credentialId, fullName |-> rawPII.fullName])

\* putEscrowEntry, lines 310-316
putEscrowEntryAudit(escrowId, rawPII, regulatorKeyId, credentialId, jurisdiction) ==
  AuditLogEntry("escrow_create", escrowId, Lit("system"),
                [regulatorKeyId |-> regulatorKeyId, jurisdiction |-> jurisdiction,
                 credentialId |-> credentialId])

\* getEscrowEntry, lines 341-347
getEscrowEntryAudit(escrowId, actorId, entry) ==
  AuditLogEntry("escrow_access", escrowId, actorId, [regulatorKeyId |-> entry.regulatorKeyId])

\* rotateEscrowEntry, lines 384-395 (deferred) and 414-420 (completed)
rotateEscrowEntryAudit(escrowId, actorId, entry, deferred) ==
  AuditLogEntry("escrow_rotate", escrowId, actorId,
                IF deferred
                THEN [result |-> Lit("deferred"), reason |-> Lit("retention_period_active"),
                      expiresAt |-> entry.expiresAt]
                ELSE [result |-> Lit("completed")])

\* putCredential, lines 488-494: String(level) and boundAddress ?? 'unbound'
putCredentialAudit(credentialId, credentialData, boundAddress, level) ==
  AuditLogEntry("credential_issue", credentialId, Lit("system"),
                [level |-> level,
                 boundAddress |-> IF boundAddress.origin = "undefined" THEN Lit("unbound")
                                  ELSE boundAddress])

\* bindCredentialToAccount, lines 513-519
bindCredentialAudit(credentialId, smartAccountAddress, actorId) ==
  AuditLogEntry("credential_bind", credentialId, actorId,
                [smartAccountAddress |-> smartAccountAddress])

\* registerNullifier, lines 543-549
registerNullifierAudit(nullifier, userId, appId) ==
  AuditLogEntry("nullifier_register", nullifier, Lit("system"), [appId |-> appId])

TrailFrame ==
  UNCHANGED <<cacheVars, storeVars, verifyVars, issueVars, escrowVars, acall, recordVars, treeVars, shutVars, expiry, apiVars, ageCase, rt, verifiedAt, gateVars>>

TrailRoom == Len(trail) < MaxTrail

\* POST /credential up to issueCredential's return: the credential with its
\* random id and userSecret, and the level resolved from the request
TrailIssue(submission, level) ==
  /\ IF aflow = NoEntry THEN TRUE ELSE aflow.pc = "done"
  /\ aflow' = [pc |-> "issued", submission |-> submission,
               credential |-> [id |-> Val("uuid", "c-1"), userSecret |-> Val("userSecret", "7"),
                               level |-> Val("level", level),
                               boundAddress |-> submission.boundAddress],
               escrowId |-> Val("ulid", ""), entry |-> NoEntry]
  /\ UNCHANGED trail
  /\ TrailFrame

\* encryptForEscrow(rawPII, 'default', credential.id): putEscrowEntry with
\* a new ULID and the default jurisdiction
TrailEscrowCreate ==
  LET rawPII == [f \in {"fullName", "dateOfBirth", "countryCode", "documentType",
                        "documentNumber"} |-> aflow.submission[f]]
      escrowId == Val("ulid", "e-1")
  IN
  /\ TrailRoom
  /\ aflow # NoEntry /\ aflow.pc = "issued"
  /\ trail' = Append(trail, putEscrowEntryAudit(escrowId, rawPII, Val("regulatorId", "default"),
                                                aflow.credential.id, Val("jurisdiction", "US")))
  /\ aflow' = [aflow EXCEPT !.pc = "escrowed", !.escrowId = escrowId,
                            !.entry = [regulatorKeyId |-> Val("regulatorId", "default"),
                                       expiresAt |-> Val("expiresAt", "1975-01-01T00:00:00.000Z")]]
  /\ TrailFrame

\* putCredential(credential.id, credential, submission.boundAddress,
\* undefined, credential.level)
TrailCredentialIssue ==
  /\ TrailRoom
  /\ aflow # NoEntry /\ aflow.pc = "escrowed"
  /\ trail' = Append(trail, putCredentialAudit(aflow.credential.id, aflow.credential,
                                               aflow.submission.boundAddress,
                                               aflow.credential.level))
  /\ aflow' = [aflow EXCEPT !.pc = "done"]
  /\ TrailFrame

HasEscrow == aflow # NoEntry /\ aflow.pc \in {"escrowed", "done"}

\* retrieveEscrow(escrowId, regulatorId) and escrowExists(escrowId)
TrailAccess(actorId) ==
  /\ TrailRoom /\ HasEscrow
  /\ trail' = Append(trail, getEscrowEntryAudit(aflow.escrowId, actorId, aflow.entry))
  /\ UNCHANGED aflow
  /\ TrailFrame

\* requestErasure(escrowId, requesterId) and the purge's rotation
TrailRotate(actorId, deferred) ==
  /\ TrailRoom /\ HasEscrow
  /\ trail' = Append(trail, rotateEscrowEntryAudit(aflow.escrowId, actorId, aflow.entry, deferred))
  /\ UNCHANGED aflow
  /\ TrailFrame

\* bindCredentialToAccount(credentialId, smartAccountAddress, actorId)
TrailBind(smartAccountAddress, actorId) ==
  /\ TrailRoom
  /\ aflow # NoEntry /\ aflow.pc = "done"
  /\ trail' = Append(trail, bindCredentialAudit(aflow.credential.id, smartAccountAddress, actorId))
  /\ UNCHANGED aflow
  /\ TrailFrame

\* registerNullifier(nullifier, 'unknown', appId) of POST /proof/verify
TrailNullifier(nullifier, appId) ==
  /\ TrailRoom
  /\ trail' = Append(trail, registerNullifierAudit(Val("publicSignals", nullifier), Lit("unknown"),
                                                   Val("publicSignals", appId)))
  /\ UNCHANGED aflow
  /\ TrailFrame

TrailActors ==
  {Val("regulatorId", "default"), Lit("existence_check"), Lit("system/purge"),
   Val("requesterId", "user-1")}

NextTrail ==
  \/ \E submission \in AuditSubmissions, level \in {"0", "3"} : TrailIssue(submission, level)
  \/ TrailEscrowCreate
  \/ TrailCredentialIssue
  \/ \E actorId \in TrailActors : TrailAccess(actorId)
  \/ \E actorId \in TrailActors, deferred \in BOOLEAN : TrailRotate(actorId, deferred)
  \/ \E actorId \in TrailActors : TrailBind(Val("smartAccountAddress", "0xB"), actorId)
  \/ \E nullifier \in Nullifiers : TrailNullifier(nullifier, "app")

SpecTrail == InitIssue /\ [][NextTrail]_vars

\* the values an audit entry carries
CarriedBy(entry) ==
  {entry.resourceId, entry.actor} \cup {entry.metadata[f] : f \in DOMAIN entry.metadata}

\* C30: no audit log entry carries, in its metadata, resourceId or actor, a
\* field of the KYC submission or the userSecret.
C30_NoPiiInAuditLog ==
  \A i \in 1..Len(trail) : \A value \in CarriedBy(trail[i]) : value.origin \notin PiiOrigins

\* an escrow_create and a credential_issue entry of an issuance are in the trail
C30_Witness ==
  /\ \E i \in 1..Len(trail) : trail[i].action = "escrow_create"
  /\ \E i \in 1..Len(trail) : trail[i].action = "credential_issue"
  /\ \E i \in 1..Len(trail) : trail[i].action \in {"escrow_access", "nullifier_register"}


(***************************************************************************)
(* POST /api/v1/proof/verify with process crashes.  A crash ends every     *)
(* handler in flight and empties the in-memory cache; the OrbitDB stores   *)
(* keep what was written.                                                  *)
(***************************************************************************)
VerifyInFlight(r) == vpc[r] \notin {"idle", "done", "crashed"}

VerifyCrash ==
  /\ \E r \in VerifyReqs : VerifyInFlight(r)
  /\ vpc' = [r \in VerifyReqs |-> IF VerifyInFlight(r) THEN "crashed" ELSE vpc[r]]
  /\ memoryCache' = <<>>
  /\ UNCHANGED <<proofCacheStore, now, cacheHistory, storeVars, vkeyExists, vbody, vresp, vput,
                 issueVars, escrowVars, acall, lateVars>>

NextVerifyCrash ==
  \/ NextVerify
  \/ VerifyCrash

SpecVerifyCrash == InitVerify /\ [][NextVerifyCrash]_vars

\* the valid=true entries of the two cache layers
ValidInL1 == {i \in 1..Len(memoryCache) : memoryCache[i].valid}
ValidInL2 == {k \in Keys : proofCacheStore[k] # NoEntry /\ proofCacheStore[k].valid}

\* C31: whenever a cache layer holds an entry with valid=true, that entry's
\* nullifier is in the nullifier store, in every interleaving of the
\* handlers and after a crash at any point.
C31_ValidCachedImpliesRegistered ==
  /\ \A i \in ValidInL1 : isNullifierUsed(nullifierStore, memoryCache[i].nullifier)
  /\ \A k \in ValidInL2 : isNullifierUsed(nullifierStore, proofCacheStore[k].nullifier)

\* a valid result is in the persistent cache, and a handler was cut by a
\* crash after its nullifier write and before its cache write
C31_Witness ==
  /\ ValidInL2 # {}
  /\ \E r \in VerifyReqs :
       /\ vpc[r] = "crashed" /\ vput[r]
       /\ proofCacheStore[vbody[r]] = NoEntry


(***************************************************************************)
(* Proofs that fail verification (proof.ts 42-68)                          *)
(***************************************************************************)
\* the request's proof is rejected by Groth16, or verifyProof throws
Rejected(r) == vbody[r] # NoKey /\ (~Groth16Valid(vbody[r]) \/ ~vkeyExists)

FalseEntryInL1(m, k) ==
  MapHas(m, k) /\ ~MapGet(m, k).valid /\ MapGet(m, k).nullifier = SignalNullifier(k)

FalseEntryInL2(store, k) ==
  store[k] # NoEntry /\ ~store[k].valid /\ store[k].nullifier = SignalNullifier(k)

\* the verification of request r returns false in this step
ReturnsFalse(r) == vpc[r] = "verify" /\ vpc'[r] = "l2put"

\* request r, whose verification returned false, is answered in this step
AnsweredFalse(r) == vpc[r] = "l2put" /\ vpc'[r] = "done" /\ ~Groth16Valid(vbody[r])

\* C32 as stated: a request whose Groth16 verification returned false or
\* threw registers no nullifier and appends no audit entry, and its
\* valid=false result, with the nullifier of publicSignals[5], is in both
\* cache layers once it is answered.
C32_RejectedCachedInBothLayers ==
  [][\A r \in VerifyReqs :
       /\ Rejected(r) => ~vput'[r]
       /\ ReturnsFalse(r) =>
            /\ FalseEntryInL1(memoryCache', vbody[r])
            /\ nullifierStore' = nullifierStore /\ auditLog' = auditLog
       /\ AnsweredFalse(r) =>
            /\ FalseEntryInL2(proofCacheStore', vbody[r])
            /\ nullifierStore' = nullifierStore /\ auditLog' = auditLog]_vars

\* C32 amended: the same, with the persistent layer written unless its
\* write fails, which leaves that layer as it was; the answer is
\* 200 {valid: false, nullifier, cached: false} either way.
C32_RejectedNeverRegistered ==
  [][\A r \in VerifyReqs :
       /\ Rejected(r) => ~vput'[r] /\ vpc'[r] \notin {"nullcheck", "nullput", "nullaudit"}
       /\ ReturnsFalse(r) =>
            /\ FalseEntryInL1(memoryCache', vbody[r])
            /\ nullifierStore' = nullifierStore /\ auditLog' = auditLog
       /\ AnsweredFalse(r) =>
            /\ FalseEntryInL2(proofCacheStore', vbody[r]) \/ proofCacheStore' = proofCacheStore
            /\ vresp'[r] = Resp200(FALSE, SignalNullifier(vbody[r]), FALSE)
            /\ nullifierStore' = nullifierStore /\ auditLog' = auditLog]_vars

\* a rejected proof has been answered, its result is in both layers and its
\* nullifier is not registered
C32_Witness ==
  \E r \in VerifyReqs :
    /\ vpc[r] = "done" /\ ~Groth16Valid(vbody[r])
    /\ vresp[r] = Resp200(FALSE, SignalNullifier(vbody[r]), FALSE)
    /\ FalseEntryInL1(memoryCache, vbody[r])
    /\ FalseEntryInL2(proofCacheStore, vbody[r])
    /\ ~isNullifierUsed(nullifierStore, SignalNullifier(vbody[r]))
    /\ auditLog = <<>>


(***************************************************************************)
(* Requests answered 409 (proof.ts 48-63)                                  *)
(***************************************************************************)
\* request r is answered 409 in this step
Answered409(r) == vpc[r] = "nullcheck" /\ vpc'[r] = "done" /\ vresp'[r].status = 409

\* request r has been answered 409, and request q arrives with the same
\* proof in this step
Resubmitted(r, q) ==
  /\ vpc[r] = "done" /\ vresp[r].status = 409
  /\ vpc[q] = "idle" /\ vpc'[q] # "idle" /\ vbody'[q] = vbody[r]

\* the 409 step writes nothing
ConflictWritesNothing ==
  [][\A r \in VerifyReqs :
       Answered409(r) => UNCHANGED <<nullifierStore, nullifierPuts, auditLog, memoryCache, proofCacheStore>>]_vars

\* C33: a request that ends in 409 leaves the nullifier entry, the audit log
\* and both cache layers as they were, and the same proof submitted again is
\* not answered from the cache.
C33_ConflictChangesNothing ==
  [][\A r \in VerifyReqs :
       /\ Answered409(r) =>
            UNCHANGED <<nullifierStore, nullifierPuts, auditLog, memoryCache, proofCacheStore>>
       /\ \A q \in VerifyReqs :
            Resubmitted(r, q) => ~(vpc'[q] = "done" /\ vresp'[q].status = 200)]_vars


(***************************************************************************)
(* The second cache layer in the handler (cache.ts 87-128)                 *)
(***************************************************************************)
\* getCached of request r finishes its read of the persistent layer
L2Lookup(r) == vpc[r] = "l2get" /\ vpc'[r] \notin {"l2get", "crashed"}

\* setCached of request r starts: the memory write, then the persistent write
SetCachedStarts(r) == vpc[r] \notin {"l2put", "crashed"} /\ vpc'[r] = "l2put"

\* setCached of request r finishes
SetCachedEnds(r) == vpc[r] = "l2put" /\ vpc'[r] = "done"

\* C34: a lookup that misses L1 and finds the fingerprint in L2 returns the
\* L2 entry's valid and nullifier with cached:true and inserts it into L1, so
\* that the next lookup is a hit in L1; a failed L2 read is a miss and never
\* an error; a failing L2 write in setCached leaves the entry in L1 and the
\* request answered.
C34_L2HitPromotesFailuresSwallowed ==
  [][\A r \in VerifyReqs :
       LET k == vbody[r]
           e == proofCacheStore[k]
       IN
       /\ L2Lookup(r) =>
            \/ /\ e # NoEntry
               /\ vpc'[r] = "done" /\ vresp'[r] = Resp200(e.valid, e.nullifier, TRUE)
               /\ MapGet(memoryCache', k) = Entry(k, e.valid, e.nullifier, now)
               /\ getCachedL1(memoryCache', k, now').result = Hit(e.valid, e.nullifier)
            \/ /\ memoryCache' = memoryCache
               /\ IF vkeyExists THEN vpc'[r] = "verify"
                  ELSE vpc'[r] = "done" /\ vresp'[r] = Resp500
       /\ SetCachedStarts(r) =>
            MapGet(memoryCache', k) = Entry(k, Groth16Valid(k), SignalNullifier(k), now)
       /\ SetCachedEnds(r) =>
            /\ memoryCache' = memoryCache
            /\ vresp'[r] = Resp200(Groth16Valid(k), SignalNullifier(k), FALSE)
            /\ \/ proofCacheStore' = proofCacheStore
               \/ proofCacheStore' = cacheProofResult(proofCacheStore, k, Groth16Valid(k), SignalNullifier(k))]_vars

\* the first request cached its result in both layers, a crash emptied L1, and
\* the third request was answered from L2, which put the entry back into L1
C34_Witness ==
  /\ vpc = <<"done", "crashed", "done">>
  /\ vresp[1].status = 200 /\ ~vresp[1].cached
  /\ vresp[3].status = 200 /\ vresp[3].cached
  /\ vbody[3] = vbody[1]
  /\ MapHas(memoryCache, vbody[3])


(***************************************************************************)
(* Readers of the escrow: retrieveEscrow and escrowExists (escrow.ts 74-81 *)
(* and 98-111) call getEscrowEntry, concurrently with each other, while    *)
(* entries are put, rotated and, outside the program, altered in the       *)
(* store.                                                                  *)
(***************************************************************************)
RegulatorIds == {"default", "other"}

\* crypto.randomBytes(32) of escrowExists: the key of no regulator
RandomKey == <<"key", "random">>

ForgedPii == RawPII([fullName |-> "MALLORY", countryCode |-> 840])

\* getEscrowEntry(id, regulatorKey, actorId) is called and awaits the read
AccessStart(t, id, regulatorKey, actorId) ==
  /\ EscrowNextTask(t)
  /\ EscrowSet(t, [NoTask EXCEPT !.op = "get", !.pc = "get.kv", !.id = id,
                                 !.key = regulatorKey, !.actor = actorId,
                                 !.seen = ehist[id]])
  /\ UNCHANGED <<escrowStore, auditLog, now, ulids, ehist>>
  /\ EscrowFrame

retrieveEscrow(t, escrowId, regulatorId) ==
  AccessStart(t, escrowId, getRegulatorKey(regulatorId), regulatorId)

escrowExists(t, escrowId) == AccessStart(t, escrowId, RandomKey, "existence_check")

\* the stored blob is altered: its bytes damaged, so that the tag check
\* fails under every key, or replaced by another plaintext sealed under the
\* same key
Damaged(blob) == [blob EXCEPT !.under = <<"key", "none">>]
Replaced(blob) == encrypt(ForgedPii, blob.under)
Untouched(entry) == entry.encryptedBlob.ciphertext = EscrowPii /\ entry.encryptedBlob.under # <<"key", "none">>

AccessTamper(id, replace) ==
  /\ escrowStore[id] # NoEntry
  /\ ~escrowStore[id].invalidated
  /\ Untouched(escrowStore[id])
  /\ escrowStore' = [escrowStore EXCEPT ![id].encryptedBlob =
                       IF replace THEN Replaced(@) ELSE Damaged(@)]
  /\ UNCHANGED <<etask, elast, auditLog, now, ulids, ehist>>
  /\ EscrowFrame

NextAccess ==
  \/ EscrowTick
  \/ \E id \in EscrowIds, replace \in BOOLEAN : AccessTamper(id, replace)
  \/ \E t \in EscrowTasks :
       \/ EscrowPutStart(t)
       \/ \E ok \in BOOLEAN : EscrowPutKV(t, ok)
       \/ \E ok \in BOOLEAN : EscrowPutAudit(t, ok)
       \/ \E id \in EscrowIds, regulatorId \in RegulatorIds : retrieveEscrow(t, id, regulatorId)
       \/ \E id \in EscrowIds : escrowExists(t, id)
       \/ \E ok \in BOOLEAN : EscrowGetKV(t, ok)
       \/ \E ok \in BOOLEAN : EscrowGetAudit(t, ok)
       \/ \E id \in EscrowIds : EscrowRotateStart(t, id, TRUE)
       \/ \E ok \in BOOLEAN : EscrowRotateKV(t, ok)
       \/ \E ok \in BOOLEAN : EscrowRotatePut(t, ok)
       \/ \E ok \in BOOLEAN : EscrowRotateAudit(t, ok)

SpecAccess == InitEscrow /\ [][NextAccess]_vars

AccessEntry(id, actorId) ==
  [action |-> "escrow_access", resourceId |-> id, actor |-> actorId]

\* the call of task t takes a step
GetSteps(t) == etask[t].op = "get" /\ etask'[t] # etask[t]

\* that step is the one that decrypts: the audit append has resolved
ReachesDecryption(t) ==
  GetSteps(t) /\ etask[t].pc = "get.audit" /\ elast'.result # Thrown("store")

\* C35: a getEscrowEntry call appends exactly one escrow_access entry naming
\* its actor, in the step that goes on to decryption, whether decryption
\* succeeds or fails; a call that fails with not found, invalidated or
\* expired appends none; every plaintext returned has an escrow_access entry
\* for its escrow id and actor in the log.
C35_AccessAuditedBeforeDecryption ==
  [][/\ \A t \in EscrowTasks :
          /\ GetSteps(t) =>
               IF ReachesDecryption(t)
               THEN auditLog' = Append(auditLog, AccessEntry(etask[t].id, etask[t].actor))
               ELSE auditLog' = auditLog
          /\ (etask[t].pc = "idle" /\ etask'[t].op = "get") => auditLog' = auditLog
     /\ (elast'.op = "get" /\ elast'.result.kind = "return") =>
          \E i \in 1..Len(auditLog') : auditLog'[i] = AccessEntry(elast'.id, elast'.actor)]_vars

\* escrowExists has failed to decrypt and a regulator has been given the
\* plaintext; both accesses are in the log
C35_Witness ==
  /\ elast.op = "get" /\ elast.result.kind = "return"
  /\ \E i \in 1..Len(auditLog) : auditLog[i] = AccessEntry(elast.id, "existence_check")
  /\ \E i \in 1..Len(auditLog) : auditLog[i] = AccessEntry(elast.id, "default")

\* the call that finished last was a getEscrowEntry that read an entry
ReadFinished == elast.op = "get" /\ elast.pc = "done" /\ elast.entry # NoEntry

\* C36: getEscrowEntry returns plaintext only when the key supplied is the
\* key the blob was encrypted under and the SHA-256 of the decrypted bytes
\* equals the stored integrityHash; with another key, an altered blob or a
\* crypto-shredded entry the call ends in an error.
C36_PlaintextNeedsKeyAndHash ==
  ReadFinished =>
    /\ elast.result.kind = "return" =>
         /\ elast.key = elast.entry.encryptedBlob.under
         /\ elast.result.value = elast.entry.encryptedBlob.ciphertext
         /\ sha256(elast.result.value) = elast.entry.integrityHash
         /\ ~elast.entry.invalidated
    /\ ( \/ elast.key # elast.entry.encryptedBlob.under
         \/ sha256(elast.entry.encryptedBlob.ciphertext) # elast.entry.integrityHash
         \/ elast.entry.invalidated ) => elast.result.kind = "throw"

\* a read with the regulator's own key of an entry whose blob was replaced
\* ended in the integrity error
C36_Witness ==
  /\ ReadFinished
  /\ elast.key = elast.entry.encryptedBlob.under
  /\ elast.entry.encryptedBlob.ciphertext = ForgedPii
  /\ elast.result = Thrown("Escrow integrity check failed")


(***************************************************************************)
(* The age of what the two-layer cache serves.  cacheProofResult stores    *)
(* verifiedAt: Date.now() with each persistent entry (stores.ts 574-578);  *)
(* getCachedProofResult and getCached return the entry without reading it, *)
(* and the promotion to memory stamps the entry with the time of the       *)
(* lookup (cache.ts 98-103, 56).                                           *)
(***************************************************************************)
TtlFrame ==
  UNCHANGED <<useOrder, tracked, storeVars, verifyVars, issueVars, escrowVars, acall,
              recordVars, treeVars, shutVars, expiry, apiVars, ageCase, rt, trailVars, gateVars>>

TtlTick ==
  /\ now < MaxTime
  /\ now' = now + 1
  /\ UNCHANGED <<memoryCache, proofCacheStore, lastOp, verifiedAt>>
  /\ TtlFrame

\* setCached(k, v, n) after a verification at the current time
TtlSetCached(k, v, n, l2ok) ==
  /\ memoryCache' = LRUset(memoryCache, k, v, n, now)
  /\ proofCacheStore' = IF l2ok THEN cacheProofResult(proofCacheStore, k, v, n)
                        ELSE proofCacheStore
  /\ verifiedAt' = [l1 |-> [verifiedAt.l1 EXCEPT ![k] = now],
                    l2 |-> IF l2ok THEN [verifiedAt.l2 EXCEPT ![k] = now] ELSE verifiedAt.l2]
  /\ lastOp' = [NoOp EXCEPT !.op = "setCached", !.key = k]
  /\ UNCHANGED now
  /\ TtlFrame

\* getCached(k); lastOp keeps what it returned and how long ago that result
\* was verified
TtlGetCached(k, l2ok) ==
  LET l1 == getCachedL1(memoryCache, k, now)
      read == IF l2ok THEN getCachedProofResult(proofCacheStore, k) ELSE NoEntry
      l2 == getCachedL2(l1.cache, k, read, now)
      fromL1 == l1.result # NoEntry
      out == IF fromL1 THEN l1 ELSE l2
      at == IF fromL1 THEN verifiedAt.l1[k] ELSE verifiedAt.l2[k]
  IN /\ fromL1 => l2ok
     /\ memoryCache' = out.cache
     /\ verifiedAt' = IF ~fromL1 /\ l2.result # NoEntry
                      THEN [verifiedAt EXCEPT !.l1[k] = verifiedAt.l2[k]]
                      ELSE verifiedAt
     /\ lastOp' = [NoOp EXCEPT !.op = "getCached", !.key = k, !.result = out.result,
                               !.existed = fromL1,
                               !.age = IF out.result = NoEntry THEN 0 ELSE now - at]
     /\ UNCHANGED <<proofCacheStore, now>>
     /\ TtlFrame

\* the fingerprints looked up and cached: one valid proof, one rejected
TtlKeys == {"f1", "f3"}

NextTtl ==
  \/ TtlTick
  \/ \E k \in TtlKeys, l2ok \in BOOLEAN :
       TtlSetCached(k, Groth16Valid(k), SignalNullifier(k), l2ok)
  \/ \E k \in TtlKeys, l2ok \in BOOLEAN : TtlGetCached(k, l2ok)

SpecTtl == InitLRU /\ [][NextTtl]_vars

\* C37: getCached never returns cached:true for a result that was verified
\* more than the TTL ago, whether it comes from L1, from L2, or from L1 after
\* a promotion from L2.
C37_NeverServedPastTtl ==
  (lastOp.op = "getCached" /\ lastOp.result # NoEntry) => lastOp.age <= TtlMs

\* the same for the results L1 holds from setCached alone
ServedFromL1 == lastOp.op = "getCached" /\ lastOp.result # NoEntry /\ lastOp.existed


(***************************************************************************)
(* set on a key the LRU already holds (cache.ts 51-61)                     *)
(***************************************************************************)
\* the key at the tail of the Map: the most recently used one
MapNewest(m) == IF Len(m) = 0 THEN NoKey ELSE m[Len(m)].key

\* the size bound alone
SizeWithinMax == Len(memoryCache) <= MaxSize

\* C38: set on a key already present replaces its value, evicts no other
\* key and makes the key the most recently used; the cache never holds more
\* than maxSize entries.
C38_ResetEvictsNothing ==
  /\ Len(memoryCache) <= MaxSize
  /\ (lastOp.op = "set" /\ lastOp.existed) =>
       /\ lastOp.evicted = {}
       /\ MapNewest(memoryCache) = lastOp.key
       /\ MapGet(memoryCache, lastOp.key).valid = Groth16Valid(lastOp.key)
       /\ MapGet(memoryCache, lastOp.key).nullifier = SignalNullifier(lastOp.key)


(***************************************************************************)
(* Authorized-peer replication (db/orbit.ts 33-77)                         *)
(***************************************************************************)
Peers == {"peerA", "peerB", "peerC"}

GateFrame ==
  UNCHANGED <<cacheVars, storeVars, verifyVars, issueVars, escrowVars, acall,
              recordVars, treeVars, shutVars, expiry, apiVars, ageCase, rt, trailVars, verifiedAt>>

\* isPeerAuthorized: an empty set allows every peer
isPeerAuthorized(peers, peerId) ==
  IF Cardinality(peers) = 0 THEN TRUE ELSE peerId \in peers

authorizePeer(peerId) ==
  /\ authorizedPeers' = authorizedPeers \cup {peerId}
  /\ everAuthorized' = everAuthorized \cup {peerId}
  /\ UNCHANGED connections
  /\ GateFrame

\* the peer's open connections are left as they are
deauthorizePeer(peerId) ==
  /\ authorizedPeers' = authorizedPeers \ {peerId}
  /\ UNCHANGED <<connections, everAuthorized>>
  /\ GateFrame

\* the 'peer:connect' listener: the connection exists when the event fires;
\* for an unauthorized peer it is closed, best effort (closed: close() worked)
PeerConnect(remotePeer, closed) ==
  /\ connections' = IF ~isPeerAuthorized(authorizedPeers, remotePeer) /\ closed
                    THEN connections \ {remotePeer}
                    ELSE connections \cup {remotePeer}
  /\ UNCHANGED <<authorizedPeers, everAuthorized>>
  /\ GateFrame

\* the remote peer hangs up
PeerDisconnect(remotePeer) ==
  /\ remotePeer \in connections
  /\ connections' = connections \ {remotePeer}
  /\ UNCHANGED <<authorizedPeers, everAuthorized>>
  /\ GateFrame

NextGate ==
  \/ \E peerId \in Peers : authorizePeer(peerId)
  \/ \E peerId \in Peers : deauthorizePeer(peerId)
  \/ \E remotePeer \in Peers, closed \in BOOLEAN : PeerConnect(remotePeer, closed)
  \/ \E remotePeer \in Peers : PeerDisconnect(remotePeer)

SpecGate == InitLRU /\ [][NextGate]_vars

\* C39: once a peer has been authorized, isPeerAuthorized(p) is true only
\* for the peers currently in the authorized set: a deauthorized peer is
\* refused until it is authorized again, and a peer never authorized is
\* never accepted.
C39_OnlyListedPeersAccepted ==
  everAuthorized # {} =>
    \A p \in Peers : isPeerAuthorized(authorizedPeers, p) => p \in authorizedPeers

\* the same while the set is not empty
ListedOnlyWhileNonEmpty ==
  authorizedPeers # {} =>
    \A p \in Peers : isPeerAuthorized(authorizedPeers, p) <=> p \in authorizedPeers

=============================================================================
